---- MODULE Spec2Model ----
(***************************************************************************)
(* A model of the RuC compiler core: the macro preprocessor (parser.c,     *)
(* src/unnamed/part_000) and the MIPS code generator (mipsgen.c).          *)
(*                                                                         *)
(* Text is a sequence of one-character strings.  The parser structure      *)
(* `prs` of the source is the record variable prs; the universal_io it     *)
(* points to is folded into it (fields in, pos, file for the input side,   *)
(* out for the output side).  The C call stack of the mutually recursive   *)
(* functions parser_preprocess / parse_until / parce_identifier /          *)
(* parse_replacement / parse_brackets / parse_values / parse_observation / *)
(* parse_include is the variable frames; pc is the position in the         *)
(* function on top of it and lc holds that function's locals.              *)
(***************************************************************************)
EXTENDS Integers, Sequences, FiniteSets, TLC, Bags

\* ------------------------------------------------------------------------
\* State
\* ------------------------------------------------------------------------

\* The state of the preprocessor: prs is the parser structure, frames the
\* calls of parser_preprocess and parce_identifier that have not returned,
\* pc the place in the innermost of them and lc its locals.
VARIABLES prs, frames, pc, lc

\* The state of the code generator, which the preprocessor leaves alone:
\* enc is the information structure of encode_to_mips, tu the declarations of
\* the translation unit, gpc the place in encode_to_mips (the declaration and
\* the statement of its body that come next), unit_io the io of the unit
\* while the body of a function is written to its buffer.
VARIABLES enc, tu, gpc, unit_io

gen == <<enc, tu, gpc, unit_io>>

\* The operators of the preprocessor apply each other by name through parse,
\* those of the code generator through emit.
RECURSIVE parse(_, _)

RECURSIVE emit(_, _)

\* ------------------------------------------------------------------------
\* Characters
\* ------------------------------------------------------------------------

\* (char32_t)EOF, the sentinel uni_scan_char returns at the end of the input
EOF == "EOF"

\* '\0', the initial value of the `character` locals
NUL == "NUL"

\* size_t SIZE_MAX, the "not found" / "failed" handle
SIZE_MAX == -1

Lower == {"a","b","c","d","e","f","g","h","i","j","k","l","m",
          "n","o","p","q","r","s","t","u","v","w","x","y","z"}

Upper == {"A","B","C","D","E","F","G","H","I","J","K","L","M",
          "N","O","P","Q","R","S","T","U","V","W","X","Y","Z"}

Digit == <<"0","1","2","3","4","5","6","7","8","9">>

utf8_is_letter(c) == c \in Lower \cup Upper \cup {"_"}

utf8_is_digit(c) == \E i \in 1..10 : Digit[i] = c

\* sprintf("%zu", n)
RECURSIVE zu(_)
zu(n) == IF n < 10 THEN <<Digit[n + 1]>> ELSE zu(n \div 10) \o <<Digit[(n % 10) + 1]>>

\* ------------------------------------------------------------------------
\* universal_io: the input position and the output sink of prs->io
\* ------------------------------------------------------------------------

\* io_create(): an io with no output attached (out_is_correct is false)
NoOut == [k |-> "none", s |-> <<>>]

\* out_set_buffer(io, size): a fresh memory buffer as the output
Buffer == [k |-> "buffer", s |-> <<>>]

\* the character the next uni_scan_char returns
in_peek(p) == IF p.pos <= Len(p.in) THEN p.in[p.pos] ELSE EOF

\* uni_scan_char: the position after the read (EOF is not consumed)
uni_scan_char(p) == IF p.pos <= Len(p.in) THEN [p EXCEPT !.pos = @ + 1] ELSE p

\* uni_unscan_char(io, c) of the character just read
uni_unscan_char(p, c) == IF c = EOF THEN p ELSE [p EXCEPT !.pos = @ - 1]

in_get_position(p) == p.pos

in_set_position(p, position) == [p EXCEPT !.pos = position]

out_is_correct(p) == p.out.k # "none"

\* uni_print_char(io, c)
uni_print_char(p, c) ==
    IF c = EOF \/ p.out.k = "none" THEN p ELSE [p EXCEPT !.out.s = Append(@, c)]

\* uni_printf(io, "%s", s)
uni_printf(p, s) ==
    IF p.out.k = "none" THEN p ELSE [p EXCEPT !.out.s = @ \o s]

\* ------------------------------------------------------------------------
\* location
\* ------------------------------------------------------------------------

\* prs->loc == NULL
NULL == -1

\* loc_line_break(prs->loc): one more line, nothing when there is no location
loc_line_break(p) == IF p.loc = NULL THEN p ELSE [p EXCEPT !.loc = @ + 1]

\* ------------------------------------------------------------------------
\* diagnostics
\* ------------------------------------------------------------------------

\* the number of diagnostics the logs p.errors and p.warnings keep
MaxLog == 6

log(list, num) == IF Len(list) < MaxLog THEN Append(list, num) ELSE list

\* variant: parser_error that reports whatever was reported before
parser_error_always(p, num) == [p EXCEPT !.errors = log(@, num), !.was_error = TRUE]

parser_error(p, num) ==
    IF p.is_recovery_disabled /\ p.was_error
    THEN p
    ELSE [p EXCEPT !.errors = log(@, num), !.was_error = TRUE]

parser_warning(p, num) ==
    IF p.is_recovery_disabled
    THEN p
    ELSE [p EXCEPT !.warnings = log(@, num)]

\* ------------------------------------------------------------------------
\* skipping: comments, strings, blanks
\* ------------------------------------------------------------------------

RECURSIVE skip_comment_loop(_, _, _)
skip_comment_loop(p, was_slash, character) ==
    IF character # EOF /\ (was_slash \/ character # "\n")
    THEN LET p1 == IF character = "\n"
                   THEN uni_print_char(loc_line_break(p), character)
                   ELSE p
             slash == character = "\\" \/ (was_slash /\ character = "\r")
         IN  skip_comment_loop(uni_scan_char(p1), slash, in_peek(p1))
    ELSE uni_unscan_char(p, character)

\* skip_comment: after "//", up to (not including) the line break or EOF
skip_comment(p) == skip_comment_loop(uni_scan_char(p), FALSE, in_peek(p))

\* the do-while of skip_multi_comment: the comment's first line, copied to out
RECURSIVE multi_comment_first(_, _, _)
multi_comment_first(p, out, character) ==
    LET was_star == character = "*"
        ch == in_peek(p)
        p1 == uni_scan_char(p)
        out1 == IF ch = EOF THEN out ELSE Append(out, ch)
    IN  IF was_star /\ ch = "/"
        THEN [p |-> uni_printf(p1, out1), closed |-> TRUE, was_star |-> was_star, character |-> ch]
        ELSE IF ch # "\r" /\ ch # "\n" /\ ch # EOF
             THEN multi_comment_first(p1, out1, ch)
             ELSE [p |-> p1, closed |-> FALSE, was_star |-> was_star, character |-> ch]

\* the while of skip_multi_comment: the following lines, up to "*/"
RECURSIVE multi_comment_rest(_, _, _, _)
multi_comment_rest(p, was_star, character, begin) ==
    IF ~was_star \/ character # "/"
    THEN IF character = EOF
         THEN [p |-> parser_error(p, "COMMENT_UNTERMINATED"), closed |-> FALSE, begin |-> begin]
         ELSE LET p1 == IF character = "\n"
                        THEN uni_print_char(loc_line_break(p), character)
                        ELSE p
                  b1 == IF character = "\n" THEN in_get_position(p) ELSE begin
              IN  multi_comment_rest(uni_scan_char(p1), character = "*", in_peek(p1), b1)
    ELSE [p |-> p, closed |-> TRUE, begin |-> begin]

\* the tail of skip_multi_comment: the comment's last line replaced by blanks
RECURSIVE multi_comment_blank(_, _)
multi_comment_blank(p, end) ==
    IF in_get_position(p) # end
    THEN multi_comment_blank(
             uni_print_char(uni_scan_char(p), IF in_peek(p) = "\t" THEN "\t" ELSE " "), end)
    ELSE p

\* skip_multi_comment: after "/*"
skip_multi_comment(p) ==
    LET first == parse("multi_comment_first", <<p, <<"/", "*">>, NUL>>)
        rest == parse("multi_comment_rest", <<first.p, first.was_star, first.character, 1>>)
    IN  IF first.closed
        THEN first.p
        ELSE IF ~rest.closed
             THEN rest.p
             ELSE multi_comment_blank(in_set_position(rest.p, rest.begin),
                                      in_get_position(rest.p))

RECURSIVE skip_string_loop(_, _, _, _)
skip_string_loop(p, quote, was_slash, character) ==
    IF was_slash \/ character # quote
    THEN LET ch == IF character = "\r" THEN in_peek(p) ELSE character
             p1 == IF character = "\r" THEN uni_scan_char(p) ELSE p
             p2 == IF ch = "\n" THEN loc_line_break(p1) ELSE p1
         IN  IF ch = EOF \/ (~was_slash /\ ch = "\n")
             THEN [p |-> parser_error(p2, "STRING_UNTERMINATED"), r |-> ch]
             ELSE skip_string_loop(uni_scan_char(uni_print_char(p2, ch)), quote,
                                   ~was_slash /\ ch = "\\", in_peek(p2))
    ELSE [p |-> p, r |-> character]

\* skip_string: after the opening quote; returns the last character read
skip_string(p, quote) == parse("skip_string_loop", <<uni_scan_char(p), quote, FALSE, in_peek(p)>>)

RECURSIVE skip_until_loop(_)
skip_until_loop(p) ==
    LET character == in_peek(p)
        p1 == uni_scan_char(p)
        second == in_peek(p1)
        p2 == uni_scan_char(p1)
        third == IF second = "\r" THEN in_peek(p2) ELSE second
        p3 == IF second = "\r" THEN uni_scan_char(p2) ELSE p2
    IN  CASE character = "/" ->
                IF second = "*" THEN skip_until_loop(parse("skip_multi_comment", <<p2>>))
                ELSE IF second = "/" THEN skip_until_loop(parse("skip_comment", <<p2>>))
                ELSE [p |-> uni_unscan_char(uni_unscan_char(p2, second), "/"), r |-> "/"]
          [] character = "\\" ->
                IF third = "\n"
                THEN skip_until_loop(loc_line_break(uni_printf(p3, <<"\\", "\n">>)))
                ELSE [p |-> uni_unscan_char(uni_unscan_char(p3, third), "\\"), r |-> "\\"]
          [] character = " " \/ character = "\t" ->
                skip_until_loop(uni_print_char(p1, character))
          [] character = "\r" ->
                [p |-> uni_unscan_char(p2, second), r |-> second]
          [] OTHER ->
                [p |-> uni_unscan_char(p1, character), r |-> character]

\* skip_until: blanks, comments and spliced line breaks up to the first
\* significant character, which is returned and left unread
skip_until(p, fill) ==
    IF fill
    THEN parse("skip_until_loop", <<p>>)
    ELSE LET res == parse("skip_until_loop", <<[p EXCEPT !.out = NoOut]>>)
         IN  [p |-> [res.p EXCEPT !.out = p.out], r |-> res.r]

RECURSIVE skip_lines_loop(_)
skip_lines_loop(res) ==
    IF res.r = "\n"
    THEN skip_lines_loop(parse("skip_until", <<loc_line_break(uni_scan_char(res.p)), FALSE>>))
    ELSE res

\* skip_lines: skip_until across line breaks
skip_lines(p) == parse("skip_lines_loop", <<parse("skip_until", <<p, FALSE>>)>>)

\* ------------------------------------------------------------------------
\* storage: lexemes with a handle, an argument count and a value
\* ------------------------------------------------------------------------

\* the directive keywords, which occupy the first handles of every storage
Keywords == <<
    <<"#", "l", "i", "n", "e">>,
    <<"#", "i", "n", "c", "l", "u", "d", "e">>,
    <<"#", "d", "e", "f", "i", "n", "e">>,
    <<"#", "s", "e", "t">>,
    <<"#", "u", "n", "d", "e", "f">>,
    <<"#", "e", "v", "a", "l">>,
    <<"#", "i", "f">>,
    <<"#", "i", "f", "d", "e", "f">>,
    <<"#", "i", "f", "n", "d", "e", "f">>,
    <<"#", "e", "l", "i", "f">>,
    <<"#", "e", "l", "s", "e">>,
    <<"#", "e", "n", "d", "i", "f">>,
    <<"#", "m", "a", "c", "r", "o">>,
    <<"#", "e", "n", "d", "m">>,
    <<"#", "w", "h", "i", "l", "e">>,
    <<"#", "e", "n", "d", "w">> >>

KW(spelling) == (CHOOSE i \in 1..Len(Keywords) : Keywords[i] = spelling) - 1

KW_LINE == KW(<<"#", "l", "i", "n", "e">>)
KW_INCLUDE == KW(<<"#", "i", "n", "c", "l", "u", "d", "e">>)
KW_DEFINE == KW(<<"#", "d", "e", "f", "i", "n", "e">>)
KW_SET == KW(<<"#", "s", "e", "t">>)
KW_UNDEF == KW(<<"#", "u", "n", "d", "e", "f">>)

kw_is_correct(index) == 0 <= index /\ index < Len(Keywords)

\* storage_create()
storage_create == [tab |-> <<>>, next |-> Len(Keywords)]

\* storage_get_index(stg, key)
storage_get_index(stg, key) ==
    IF \E i \in 1..Len(Keywords) : Keywords[i] = key THEN KW(key)
    ELSE IF key \in DOMAIN stg.tab THEN stg.tab[key].index
    ELSE SIZE_MAX

\* storage_to_string(stg, index): the key of a handle
storage_to_string(stg, index) == CHOOSE key \in DOMAIN stg.tab : stg.tab[key].index = index

storage_has_index(stg, index) == \E key \in DOMAIN stg.tab : stg.tab[key].index = index

\* storage_add(stg, key): SIZE_MAX when the key exists
storage_add(stg, key) ==
    IF storage_get_index(stg, key) # SIZE_MAX
    THEN [stg |-> stg, index |-> SIZE_MAX]
    ELSE [stg |-> [tab |-> stg.tab @@ (key :> [index |-> stg.next, args |-> 0, value |-> <<>>]),
                   next |-> stg.next + 1],
          index |-> stg.next]

\* storage_set_by_index(stg, index, value)
storage_set_by_index(stg, index, value) ==
    IF storage_has_index(stg, index)
    THEN [stg EXCEPT !.tab[storage_to_string(stg, index)].value = value]
    ELSE stg

\* storage_set_args_by_index(stg, index, args)
storage_set_args_by_index(stg, index, args) ==
    IF storage_has_index(stg, index)
    THEN [stg EXCEPT !.tab[storage_to_string(stg, index)].args = args]
    ELSE stg

\* storage_get_by_index(stg, index) # NULL
storage_has_value(stg, index) == storage_has_index(stg, index)

\* storage_get_by_index(stg, index)
storage_get_by_index(stg, index) == stg.tab[storage_to_string(stg, index)].value

\* storage_get_args_by_index(stg, index)
storage_get_args_by_index(stg, index) == stg.tab[storage_to_string(stg, index)].args

\* storage_remove_by_index(stg, index): nothing when the handle is not in use
storage_remove_by_index(stg, index) ==
    IF storage_has_index(stg, index)
    THEN [stg EXCEPT !.tab = [key \in DOMAIN stg.tab \ {storage_to_string(stg, index)}
                                  |-> stg.tab[key]]]
    ELSE stg

RECURSIVE read_lexeme_loop(_, _)
read_lexeme_loop(p, lexeme) ==
    IF utf8_is_letter(in_peek(p)) \/ utf8_is_digit(in_peek(p))
    THEN read_lexeme_loop(uni_scan_char(p), Append(lexeme, in_peek(p)))
    ELSE [p |-> p, last_read |-> lexeme]

\* the lexeme the storage reads from the stream: a letter or '#', then the
\* longest run of letters and digits
read_lexeme(p) ==
    IF utf8_is_letter(in_peek(p)) \/ in_peek(p) = "#"
    THEN read_lexeme_loop(uni_scan_char(p), <<in_peek(p)>>)
    ELSE [p |-> p, last_read |-> <<>>]

\* storage_search(stg, io): the handle of the lexeme read, or SIZE_MAX;
\* last_read is storage_last_read(stg) afterwards
storage_search(stg, p) ==
    LET lex == parse("read_lexeme", <<p>>)
    IN  [p |-> lex.p, last_read |-> lex.last_read,
         index |-> storage_get_index(stg, lex.last_read)]

\* storage_add_by_io(stg, io): the new handle of the lexeme read, or SIZE_MAX
\* when it exists
storage_add_by_io(stg, p) ==
    LET lex == parse("read_lexeme", <<p>>)
        added == storage_add(stg, lex.last_read)
    IN  [p |-> lex.p, last_read |-> lex.last_read, stg |-> added.stg, index |-> added.index]

\* ------------------------------------------------------------------------
\* #define / #set: the parameter list and the replacement text
\* ------------------------------------------------------------------------

MASK_POSTFIX == <<"_", "_">>

\* sprintf(MASK_ARGUMENT, index)
MASK_ARGUMENT(index) == <<"_", "_", "A", "R", "G", "_">> \o zu(index) \o <<"_">>

\* sprintf(MASK_STRING, index)
MASK_STRING(index) == <<"_", "_", "S", "T", "R", "_">> \o zu(index) \o <<"_">>

\* sprintf(MASK_TOKEN_PASTE, index)
MASK_TOKEN_PASTE(index) == <<"#", "_", "_", "T", "K", "P", "_">> \o zu(index) \o <<"_">>

\* parse_location: reads back to the start of the directive to compute its
\* location and restores the position
parse_location(p) == p

\* loc_search_from(prs->loc): recomputes the column of the location
loc_search_from(p) == p

\* parse_name: TRUE when a macro name follows the directive keyword
parse_name(p) ==
    LET res == parse("skip_until", <<parse_location(p), FALSE>>)
    IN  IF utf8_is_letter(res.r) THEN [p |-> res.p, r |-> TRUE]
        ELSE IF res.r = "\n"
             THEN [p |-> parser_error(res.p, "DIRECTIVE_NAME_NON"), r |-> FALSE]
             ELSE [p |-> parser_error(loc_search_from(res.p), "MACRO_NAME_FIRST_CHARACTER"),
                   r |-> FALSE]

\* the for loop of parse_args; character is the pending significant character
RECURSIVE parse_args_loop(_, _, _, _)
parse_args_loop(p, stg, i, character) ==
    IF character = ")"
    THEN [p |-> uni_scan_char(p), stg |-> stg, r |-> i]
    ELSE IF character = "\n" \/ character = EOF
    THEN [p |-> parser_error(p, "ARGS_EXPECTED_BRACKET"), stg |-> stg, r |-> SIZE_MAX]
    ELSE IF ~utf8_is_letter(character)
    THEN [p |-> parser_error(loc_search_from(p), "ARGS_EXPECTED_NAME"), stg |-> stg,
          r |-> SIZE_MAX]
    ELSE LET added == parse("storage_add_by_io", <<stg, loc_search_from(p)>>)
         IN  IF added.index = SIZE_MAX
             THEN [p |-> parser_error(added.p, "ARGS_DUPLICATE"), stg |-> stg, r |-> SIZE_MAX]
             ELSE LET stg1 == storage_set_by_index(added.stg, added.index, zu(i))
                      res == parse("skip_until", <<added.p, FALSE>>)
                  IN  IF res.r = ","
                      THEN LET nxt == parse("skip_until", <<uni_scan_char(res.p), FALSE>>)
                           IN  parse_args_loop(nxt.p, stg1, i + 1, nxt.r)
                      ELSE IF res.r # ")" /\ res.r # "\n" /\ res.r # EOF
                      THEN [p |-> parser_error(loc_search_from(res.p), "ARGS_EXPECTED_COMMA"),
                            stg |-> stg1, r |-> SIZE_MAX]
                      ELSE parse_args_loop(res.p, stg1, i + 1, res.r)

\* parse_args: the number of parameters (0 without a list directly after
\* the name), SIZE_MAX on a malformed list; stg is the macro's own storage
parse_args(p, stg) ==
    LET position == in_get_position(p)
        res == parse("skip_until", <<p, FALSE>>)
    IN  IF res.r # "(" \/ position # in_get_position(res.p)
        THEN [p |-> res.p, stg |-> stg, r |-> 0]
        ELSE LET nxt == parse("skip_until", <<uni_scan_char(res.p), FALSE>>)
             IN  parse("parse_args_loop", <<nxt.p, stg, 0, nxt.r>>)

\* storage_get_by_index(prs->stg, storage_search(prs->stg, prs->io)) of the
\* macro's own storage: value is meaningful when found
search_value(p, stg) ==
    LET res == parse("storage_search", <<stg, p>>)
        found == storage_has_value(stg, res.index)
    IN  [p |-> res.p, last_read |-> res.last_read, found |-> found,
         value |-> IF found THEN storage_get_by_index(stg, res.index) ELSE <<>>]

\* parse_operator: '#' or '##' in a replacement text
parse_operator(p, stg, index, was_space) ==
    LET p1 == uni_scan_char(p)
        character == in_peek(p1)
        p2 == uni_scan_char(p1)
    IN  IF character = "#"
        THEN LET res == parse("skip_until", <<p2, FALSE>>)
             IN  IF res.r = "\n"
                 THEN [p |-> parser_error(res.p, "HASH_ON_EDGE"), r |-> FALSE]
                 ELSE LET v == parse("search_value", <<res.p, stg>>)
                      IN  IF ~v.found
                          THEN [p |-> parser_error(v.p, "HASH_NOT_FOLLOWED"), r |-> FALSE]
                          ELSE [p |-> uni_printf(v.p, MASK_TOKEN_PASTE(index) \o v.value
                                                      \o MASK_POSTFIX),
                                r |-> TRUE]
        ELSE LET res == parse("skip_until", <<uni_unscan_char(p2, character), FALSE>>)
                 v == parse("search_value", <<res.p, stg>>)
             IN  IF ~v.found
                 THEN [p |-> parser_error(v.p, "HASH_NOT_FOLLOWED"), r |-> FALSE]
                 ELSE [p |-> uni_printf(v.p, (IF was_space THEN <<" ">> ELSE <<>>)
                                             \o MASK_STRING(index) \o v.value \o MASK_POSTFIX),
                       r |-> TRUE]

\* the while loop of parse_content; p.out is the value buffer
RECURSIVE parse_content_loop(_, _, _, _, _)
parse_content_loop(p, stg, index, position, character) ==
    IF character = "\n" \/ character = EOF
    THEN [p |-> p, r |-> TRUE]
    ELSE LET next(q) == LET res == parse("skip_until", <<q, FALSE>>)
                        IN  parse_content_loop(res.p, stg, index, in_get_position(q), res.r)
         IN  IF character = "#"
             THEN LET op == parse("parse_operator", <<p, stg, index, in_get_position(p) # position>>)
                  IN  IF ~op.r THEN [p |-> op.p, r |-> FALSE] ELSE next(op.p)
             ELSE LET p1 == uni_print_char(p, IF in_get_position(p) = position
                                              THEN EOF ELSE " ")
                  IN  IF utf8_is_letter(character)
                      THEN LET v == parse("search_value", <<p1, stg>>)
                           IN  next(uni_printf(v.p,
                                   IF v.found
                                   THEN MASK_ARGUMENT(index) \o v.value \o MASK_POSTFIX
                                   ELSE v.last_read))
                      ELSE IF character = "'" \/ character = "\""
                      THEN LET str == parse("skip_string", <<uni_print_char(uni_scan_char(p1), character),
                                                  character>>)
                           IN  IF str.r # character
                               THEN [p |-> str.p, r |-> FALSE]
                               ELSE next(uni_print_char(str.p, character))
                      ELSE next(uni_print_char(uni_scan_char(p1), character))

\* parse_content: the replacement text with the parameters masked;
\* r is FALSE for the NULL result
parse_content(p, stg, index) ==
    LET res == parse("skip_until", <<[p EXCEPT !.out = Buffer], FALSE>>)
        loop == parse("parse_content_loop", <<res.p, stg, index, in_get_position(res.p), res.r>>)
    IN  [p |-> [loop.p EXCEPT !.out = p.out], value |-> loop.p.out.s, r |-> loop.r]

\* parse_context: the arity and the value of macro `index` of prs->stg, or
\* its removal when the definition is malformed
parse_context(p, index) ==
    LET a == parse("parse_args", <<p, storage_create>>)
        removed(q) == [q EXCEPT !.stg = storage_remove_by_index(@, index)]
    IN  IF a.r = SIZE_MAX
        THEN removed(a.p)
        ELSE LET p1 == [a.p EXCEPT !.stg = storage_set_args_by_index(@, index, a.r)]
                 res == parse("skip_until", <<p1, FALSE>>)
                 p2 == uni_scan_char(loc_search_from(res.p))
                 content(q) == LET c == parse("parse_content", <<q, a.stg, index>>)
                               IN  IF c.r
                                   THEN [c.p EXCEPT !.stg = storage_set_by_index(@, index, c.value)]
                                   ELSE removed(c.p)
             IN  IF res.r = "#"
                 THEN IF in_peek(p2) = "#"
                      THEN removed(parser_error(uni_scan_char(p2), "HASH_ON_EDGE"))
                      ELSE content(uni_unscan_char(p2, "#"))
                 ELSE content(res.p)

\* ------------------------------------------------------------------------
\* lines: directive recognition, plain text, skipped directive tails
\* ------------------------------------------------------------------------

\* loc_update / loc_update_begin / loc_update_end: the #line marks of the
\* location tracker are not part of the modelled output text
loc_update(p) == p

\* the while (true) of parse_hash; real is the output sink swapped away
RECURSIVE parse_hash_loop(_, _)
parse_hash_loop(p, real) ==
    LET p1 == IF p.is_line_required THEN loc_update([p EXCEPT !.out = Buffer]) ELSE p
        res == parse("skip_until", <<p1, TRUE>>)
    IN  IF res.r # "\n"
        THEN LET back == [res.p EXCEPT !.out = real, !.is_line_required = FALSE]
             IN  IF res.r # "#"
                 THEN [p |-> uni_printf(back, res.p.out.s), out |-> <<>>, r |-> res.r]
                 ELSE [p |-> back, out |-> res.p.out.s, r |-> res.r]
        ELSE parse_hash_loop(loc_line_break(uni_print_char(uni_scan_char(res.p), "\n")), real)

\* parse_hash: skips blank lines up to the first significant character of a
\* line; out is the text held back when that character is '#'
parse_hash(p) == parse("parse_hash_loop", <<[p EXCEPT !.out = Buffer], p.out>>)

\* uni_unscan(io, str)
uni_unscan(p, str) == [p EXCEPT !.pos = @ - Len(str)]

\* parse_directive: the keyword of the directive the line starts with, or
\* SIZE_MAX when the line is not a directive of the language
parse_directive(p) ==
    LET h == parse("parse_hash", <<p>>)
    IN  IF h.r # "#"
        THEN [p |-> h.p, keyword |-> SIZE_MAX]
        ELSE LET s == parse("storage_search", <<h.p.stg, h.p>>)
                 out == Append(h.out, "#")
                 d == IF Len(s.last_read) = 1
                      THEN LET res == parse("skip_until", <<[s.p EXCEPT !.out = [k |-> "buffer", s |-> out]],
                                                 TRUE>>)
                               s2 == parse("storage_search", <<res.p.stg, res.p>>)
                           IN  IF utf8_is_letter(res.r)
                               THEN [p |-> [s2.p EXCEPT !.out = h.p.out], out |-> res.p.out.s,
                                     last_read |-> s2.last_read,
                                     keyword |-> storage_get_index(res.p.stg,
                                                                   <<"#">> \o s2.last_read)]
                               ELSE [p |-> [res.p EXCEPT !.out = h.p.out], out |-> res.p.out.s,
                                     last_read |-> s.last_read, keyword |-> s.index]
                      ELSE [p |-> s.p, out |-> out, last_read |-> s.last_read,
                            keyword |-> s.index]
             IN  IF ~kw_is_correct(d.keyword)
                 THEN LET p1 == uni_printf(d.p, d.out)
                      IN  IF Len(d.last_read) >= 2 /\ utf8_is_letter(d.last_read[2])
                          THEN [p |-> uni_printf(parser_error(p1, "DIRECTIVE_INVALID"),
                                                 Tail(d.last_read)),
                                keyword |-> SIZE_MAX]
                          ELSE [p |-> uni_unscan(parser_error(p1, "CHARACTER_STRAY"),
                                                 Tail(d.last_read)),
                                keyword |-> SIZE_MAX]
                 ELSE [p |-> d.p, keyword |-> d.keyword]

\* one iteration of the loop of parse_until for a significant character that
\* is not the start of an expandable identifier
parse_until_char(p, character) ==
    IF character = "#"
    THEN uni_print_char(uni_scan_char(parser_error(loc_search_from(p), "CHARACTER_STRAY")),
                        character)
    ELSE IF character = "'" \/ character = "\""
    THEN LET str == parse("skip_string", <<uni_print_char(uni_scan_char(p), character), character>>)
         IN  uni_print_char(str.p, str.r)
    ELSE uni_print_char(uni_scan_char(p), character)

\* the end of parse_until after its loop; position is where it started
parse_until_end(p, position, character) ==
    loc_line_break(IF character = EOF /\ p.prev = NULL /\ in_get_position(p) # position
                   THEN uni_print_char(p, "\n")
                   ELSE p)

\* parse_until while the output is not attached: identifiers are not looked up
RECURSIVE parse_until_loop(_, _)
parse_until_loop(p, position) ==
    LET res == parse("skip_until", <<p, TRUE>>)
        p1 == parse("parse_until_char", <<res.p, res.r>>)
    IN  IF res.r = "\n" \/ res.r = EOF
        THEN parse_until_end(p1, position, res.r)
        ELSE parse_until_loop(p1, position)

\* skip_directive: drops the rest of the directive line
skip_directive(p) ==
    LET p1 == [p EXCEPT !.is_recovery_disabled = TRUE, !.was_error = TRUE, !.out = NoOut]
        p2 == parse("parse_until_loop", <<p1, in_get_position(p1)>>)
    IN  [p2 EXCEPT !.out = p.out, !.was_error = p.was_error,
                   !.is_recovery_disabled = p.is_recovery_disabled,
                   !.is_line_required = TRUE]

parse_line(p) == parse("skip_directive", <<parser_warning(parse_location(p), "DIRECTIVE_LINE_SKIPED")>>)

\* parse_define that gives an existing name its new context, as parse_set does
parse_define_again(p) ==
    LET name == parse("parse_name", <<p>>)
        found == parse("storage_search", <<name.p.stg, loc_search_from(name.p)>>)
        added == parse("storage_add_by_io", <<name.p.stg, loc_search_from(name.p)>>)
    IN  IF ~name.r
        THEN parse("skip_directive", <<name.p>>)
        ELSE IF added.index = SIZE_MAX
        THEN parse("skip_directive", <<parse("parse_context", <<found.p, found.index>>)>>)
        ELSE parse("skip_directive", <<parse("parse_context", <<[added.p EXCEPT !.stg = added.stg], added.index>>)>>)

parse_define(p) ==
    LET name == parse("parse_name", <<p>>)
        added == parse("storage_add_by_io", <<name.p.stg, loc_search_from(name.p)>>)
    IN  IF ~name.r
        THEN parse("skip_directive", <<name.p>>)
        ELSE IF added.index = SIZE_MAX
        THEN parse("skip_directive", <<parser_error(added.p, "MACRO_NAME_REDEFINE")>>)
        ELSE parse("skip_directive", <<parse("parse_context", <<[added.p EXCEPT !.stg = added.stg], added.index>>)>>)

parse_set(p) ==
    LET name == parse("parse_name", <<p>>)
        found == parse("storage_search", <<name.p.stg, loc_search_from(name.p)>>)
        added == parse("storage_add_by_io", <<name.p.stg,
                     in_set_position(parser_warning(found.p, "MACRO_NAME_UNDEFINED"),
                                     in_get_position(name.p))>>)
    IN  IF ~name.r
        THEN parse("skip_directive", <<name.p>>)
        ELSE IF found.index = SIZE_MAX
        THEN parse("skip_directive", <<parse("parse_context", <<[added.p EXCEPT !.stg = added.stg], added.index>>)>>)
        ELSE parse("skip_directive", <<parse("parse_context", <<found.p, found.index>>)>>)

\* parse_undef that leaves the storage as it is
parse_undef_keep(p) == parse("skip_directive", <<parse("parse_name", <<p>>).p>>)

parse_undef(p) ==
    LET name == parse("parse_name", <<p>>)
        found == parse("storage_search", <<name.p.stg, name.p>>)
    IN  IF ~name.r
        THEN parse("skip_directive", <<name.p>>)
        ELSE parse("skip_directive", <<[found.p EXCEPT !.stg = storage_remove_by_index(@, found.index)]>>)

\* ------------------------------------------------------------------------
\* macro calls: the pieces of parce_identifier, parse_replacement,
\* parse_brackets, parse_values and parse_observation between two nested
\* parser_preprocess calls
\* ------------------------------------------------------------------------

MAX_INCLUDE_DEPTH == 32

MAX_CALL_DAPTH == 256

MAX_ITERATION == 32768

\* the call depth test with the limit itself let through
is_call_depth_above(p) == p.call > MAX_CALL_DAPTH

\* parce_identifier: the call depth test
is_call_depth(p) == p.call >= MAX_CALL_DAPTH

\* parce_identifier at the depth limit: the error and the name as it is
parce_identifier_depth(p, last_read) ==
    uni_printf(parser_error(loc_search_from(p), "CALL_DEPTH"), last_read)

\* parce_identifier before parse_replacement
parce_identifier_begin(p) ==
    IF p.file
    THEN loc_update(uni_print_char([p EXCEPT !.call = @ + 1, !.prev = p.loc], "\n"))
    ELSE [p EXCEPT !.call = @ + 1]

\* parce_identifier after parse_replacement without the prs->call-- at its end
parce_identifier_end_keep(p, file) ==
    IF file
    THEN loc_update(uni_print_char([p EXCEPT !.prev = NULL], "\n"))
    ELSE p

\* parce_identifier after parse_replacement; file is in_is_file of the input
\* the identifier was read from
parce_identifier_end(p, file) ==
    IF file
    THEN [loc_update(uni_print_char([p EXCEPT !.prev = NULL], "\n")) EXCEPT !.call = @ - 1]
    ELSE [p EXCEPT !.call = @ - 1]

\* parse_replacement, expected == 0, with the position set back only when no
\* '(' follows the name
parse_replacement_pair_open(p) ==
    LET open == parse("skip_lines", <<p>>)
        close == parse("skip_lines", <<uni_scan_char(open.p)>>)
    IN  IF open.r # "("
        THEN in_set_position([open.p EXCEPT !.loc = p.loc], in_get_position(p))
        ELSE uni_scan_char(close.p)

\* parse_replacement, expected == 0: the position after the optional "()"
parse_replacement_pair(p) ==
    LET open == parse("skip_lines", <<p>>)
        close == parse("skip_lines", <<uni_scan_char(open.p)>>)
        failed == IF open.r # "(" THEN open.p ELSE close.p
    IN  IF open.r # "(" \/ close.r # ")"
        THEN in_set_position([failed EXCEPT !.loc = p.loc], in_get_position(p))
        ELSE uni_scan_char(close.p)

\* parse_replacement, expected != 0 and no '(' after the name
parse_replacement_non(p) ==
    LET open == parse("skip_lines", <<p>>)
    IN  parser_error(in_set_position([open.p EXCEPT !.loc = p.loc], in_get_position(p)),
                     "ARGS_NON")

\* parse_replacement after parse_brackets when the counts differ
parse_replacement_count(p, expected, actual) ==
    IF actual # SIZE_MAX
    THEN parser_error(loc_search_from(p),
                      IF expected > actual THEN "ARGS_REQUIRES" ELSE "ARGS_PASSED")
    ELSE p

\* the condition of the inner while of parse_brackets
brackets_inner_cond(brackets, character) ==
    brackets # 0 \/ (character # "," /\ character # ")" /\ character # EOF)

\* one iteration of the inner while of parse_brackets; l holds the locals
brackets_inner(p, l) ==
    LET p1 == uni_printf(p, IF in_get_position(p) # l.bpos THEN <<" ">> ELSE <<>>)
        p2 == uni_print_char(uni_scan_char(p1), in_peek(p1))
        str == parse("skip_string", <<p2, l.character>>)
        quoted == l.character = "'" \/ l.character = "\""
        p3 == IF quoted THEN uni_print_char(str.p, l.character) ELSE p2
        arg1 == IF quoted /\ str.r # l.character THEN SIZE_MAX ELSE l.arg
        res == parse("skip_lines", <<p3>>)
    IN  [p |-> IF res.r = EOF THEN parser_error(res.p, "ARGS_UNTERMINATED") ELSE res.p,
         l |-> [l EXCEPT !.arg = IF res.r = EOF THEN SIZE_MAX ELSE arg1,
                         !.brackets = @ + (IF l.character = "(" THEN 1
                                           ELSE IF l.character = ")" THEN -1 ELSE 0),
                         !.bpos = in_get_position(p3),
                         !.character = res.r,
                         !.iter = @ + 1]]

\* the for loop of parse_values that builds the string form of an argument
RECURSIVE parse_values_string(_, _)
parse_values_string(value, i) ==
    IF i > Len(value) THEN <<>>
    ELSE IF value[i] = "\\"
    THEN IF i + 1 > Len(value) THEN <<>>
         ELSE LET ch == value[i + 1]
              IN  (IF ch = "\"" THEN <<"\\", "\\", "\\">> ELSE <<"\\">>) \o <<ch>>
                  \o parse_values_string(value, i + 2)
    ELSE (IF value[i] = "\"" THEN <<"\\">> ELSE <<>>) \o <<value[i]>>
         \o parse_values_string(value, i + 1)

\* storage_set_by_index(stg, storage_add(stg, mask), value)
storage_add_value(stg, mask, value) ==
    LET added == storage_add(stg, mask)
    IN  storage_set_by_index(added.stg, added.index, value)

\* parse_values before parser_preprocess: the raw argument for '##'
parse_values_paste(stg, index, value, arg) ==
    parse("storage_add_value", <<stg, MASK_TOKEN_PASTE(index) \o zu(arg) \o MASK_POSTFIX, value>>)

\* parse_values after parser_preprocess: the expanded argument and the
\* string form; value is the argument as written, buffer its expansion
parse_values_masks(stg, index, value, buffer, arg) ==
    parse("storage_add_value", <<
        parse("storage_add_value", <<stg, MASK_ARGUMENT(index) \o zu(arg) \o MASK_POSTFIX, buffer>>),
        MASK_STRING(index) \o zu(arg) \o MASK_POSTFIX,
        <<"\"">> \o parse_values_string(value, 1) \o <<"\"">>>>)

\* the for loop of parse_observation; p reads the macro value and writes the
\* text with the masks replaced
RECURSIVE parse_observation_loop(_, _)
parse_observation_loop(p, stg) ==
    LET res == parse("skip_until", <<p, TRUE>>)
        ch == res.r
        s == parse("storage_search", <<stg, res.p>>)
    IN  IF ch = EOF THEN res.p
        ELSE IF ch = "#" \/ utf8_is_letter(ch)
        THEN parse_observation_loop(
                 uni_printf(s.p, IF kw_is_correct(s.index) \/ s.index = SIZE_MAX
                                 THEN s.last_read
                                 ELSE storage_get_by_index(stg, s.index)),
                 stg)
        ELSE IF ch = "'" \/ ch = "\""
        THEN LET str == parse("skip_string", <<uni_print_char(uni_scan_char(res.p), ch), ch>>)
             IN  parse_observation_loop(uni_print_char(str.p, str.r), stg)
        ELSE parse_observation_loop(uni_print_char(uni_scan_char(res.p), ch), stg)

\* parse_observation before parser_preprocess: buffer is the text to preprocess
parse_observation(p, index, stg) ==
    LET value == [p EXCEPT !.in = storage_get_by_index(p.stg, index), !.pos = 1,
                           !.file = FALSE, !.out = Buffer, !.loc = NULL]
        done == parse("parse_observation_loop", <<value, stg>>)
    IN  [p |-> [done EXCEPT !.in = p.in, !.pos = p.pos, !.file = p.file, !.out = p.out,
                            !.loc = p.loc],
         buffer |-> done.out.s]

\* ------------------------------------------------------------------------
\* the preprocessor as a state machine
\* ------------------------------------------------------------------------


\* the locals of parse_until (position) and of parse_brackets with the
\* index of parse_replacement (the rest)
Locals(position) ==
    [position |-> position, index |-> SIZE_MAX, stg |-> storage_create, arg |-> 0,
     expected |-> 0, character |-> NUL, out |-> NoOut, bpos |-> 0, brackets |-> 0,
     iter |-> 0]

\* parser_preprocess on entry: the input is attached, the output stays
preprocess_enter(p, in, file) ==
    [p EXCEPT !.in = in, !.pos = 1, !.file = file, !.is_line_required = TRUE, !.loc = 1]

\* parser_preprocess on return: the caller's input and location are back
preprocess_leave(p, frame) ==
    [p EXCEPT !.in = frame.in, !.pos = frame.pos, !.file = frame.file, !.loc = frame.loc]

\* the activation record of the caller of a nested parser_preprocess
Frame(ret, p, l) ==
    [ret |-> ret, in |-> p.in, pos |-> p.pos, file |-> p.file, loc |-> p.loc, lc |-> l]

\* parser_create followed by parser_preprocess of the main file
parser_create(in, lk) ==
    preprocess_enter(
        [in |-> <<>>, pos |-> 1, file |-> TRUE, out |-> [k |-> "file", s |-> <<>>],
         loc |-> NULL, prev |-> NULL, stg |-> storage_create, lk |-> lk,
         include |-> 0, call |-> 0,
         is_recovery_disabled |-> FALSE, is_line_required |-> FALSE, was_error |-> FALSE,
         errors |-> <<>>, warnings |-> <<>>],
        in, TRUE)

\* parser_disable_recovery(prs, status)
parser_disable_recovery(p, status) == [p EXCEPT !.is_recovery_disabled = status]

\* case KW_LINE of parser_preprocess
ParseLine ==
    /\ UNCHANGED gen
    /\ pc = "directive"
    /\ \E d \in {parse("parse_directive", <<prs>>)} :
           /\ d.keyword = KW_LINE
           /\ prs' = parse("parse_line", <<d.p>>)
    /\ UNCHANGED <<frames, pc, lc>>

\* case KW_DEFINE of parser_preprocess
ParseDefine ==
    /\ UNCHANGED gen
    /\ pc = "directive"
    /\ \E d \in {parse("parse_directive", <<prs>>)} :
           /\ d.keyword = KW_DEFINE
           /\ prs' = parse("parse_define", <<d.p>>)
    /\ UNCHANGED <<frames, pc, lc>>

\* case KW_SET of parser_preprocess
ParseSet ==
    /\ UNCHANGED gen
    /\ pc = "directive"
    /\ \E d \in {parse("parse_directive", <<prs>>)} :
           /\ d.keyword = KW_SET
           /\ prs' = parse("parse_set", <<d.p>>)
    /\ UNCHANGED <<frames, pc, lc>>

\* case KW_UNDEF of parser_preprocess
ParseUndef ==
    /\ UNCHANGED gen
    /\ pc = "directive"
    /\ \E d \in {parse("parse_directive", <<prs>>)} :
           /\ d.keyword = KW_UNDEF
           /\ prs' = parse("parse_undef", <<d.p>>)
    /\ UNCHANGED <<frames, pc, lc>>

\* the other cases of the switch: parse_until is entered
ParseText ==
    /\ UNCHANGED gen
    /\ pc = "directive"
    /\ \E d \in {parse("parse_directive", <<prs>>)} :
           /\ d.keyword \notin {KW_LINE, KW_INCLUDE, KW_DEFINE, KW_SET, KW_UNDEF}
           /\ prs' = d.p
           /\ lc' = Locals(in_get_position(d.p))
    /\ pc' = "until"
    /\ UNCHANGED frames

\* the head of an iteration of parse_until: skip_until, and for a letter
\* with a correct output the storage_search of parce_identifier
parse_until_search(p) ==
    LET res == parse("skip_until", <<p, TRUE>>)
    IN  IF utf8_is_letter(res.r) /\ out_is_correct(res.p)
        THEN LET s == parse("storage_search", <<res.p.stg, res.p>>)
             IN  [p |-> s.p, index |-> s.index, last_read |-> s.last_read,
                  is_identifier |-> TRUE]
        ELSE [p |-> res.p, index |-> SIZE_MAX, last_read |-> <<>>, is_identifier |-> FALSE]

\* an iteration of parse_until that does not call parce_identifier; after
\* the last one parse_until returns to the loop of parser_preprocess
ParseUntil ==
    /\ UNCHANGED gen
    /\ pc = "until"
    /\ \E res \in {parse("skip_until", <<prs, TRUE>>)} :
           /\ ~(utf8_is_letter(res.r) /\ out_is_correct(res.p))
           /\ \E p1 \in {parse("parse_until_char", <<res.p, res.r>>)} :
                  IF res.r = "\n" \/ res.r = EOF
                  THEN /\ prs' = parse_until_end(p1, lc.position, res.r)
                       /\ pc' = IF res.r = EOF THEN "return" ELSE "directive"
                  ELSE /\ prs' = p1
                       /\ pc' = pc
    /\ UNCHANGED <<frames, lc>>

\* parse_include_path up to the nested parser_preprocess: found tells
\* whether the header is to be preprocessed
parse_include_path(p, quote) ==
    LET str == parse("skip_string", <<[uni_scan_char(p) EXCEPT !.out = Buffer], quote>>)
        path == str.p.out.s
        back == [str.p EXCEPT !.out = p.out]
        res == parse("skip_until", <<back, FALSE>>)
    IN  IF str.r # quote
        THEN [p |-> parser_error(back, "INCLUDE_EXPECTS_FILENAME"), found |-> FALSE,
              header |-> <<>>]
        ELSE IF path \notin DOMAIN p.lk
        THEN [p |-> parser_error(back, "INCLUDE_NO_SUCH_FILE"), found |-> FALSE,
              header |-> <<>>]
        ELSE [p |-> IF res.r # "\n"
                    THEN parser_warning(loc_search_from(res.p), "DIRECTIVE_EXTRA_TOKENS")
                    ELSE res.p,
              found |-> TRUE, header |-> p.lk[path]]

\* parse_include up to the nested parser_preprocess, or as a whole when no
\* header is preprocessed
parse_include(p) ==
    LET p1 == [parse_location(p) EXCEPT !.include = @ + 1]
        res == parse("skip_until", <<p1, FALSE>>)
        path == parse("parse_include_path", <<res.p, IF res.r = "<" THEN ">" ELSE res.r>>)
        leave(q) == parse("skip_directive", <<[q EXCEPT !.include = @ - 1]>>)
    IN  IF p.include >= MAX_INCLUDE_DEPTH
        THEN [p |-> parse("skip_directive", <<parser_error(parse_location(p), "INCLUDE_DEPTH")>>),
              found |-> FALSE, header |-> <<>>]
        ELSE IF res.r = "<" \/ res.r = "\""
        THEN IF path.found THEN path
             ELSE [p |-> leave(path.p), found |-> FALSE, header |-> <<>>]
        ELSE [p |-> leave(parser_error(loc_search_from(res.p), "INCLUDE_EXPECTS_FILENAME")),
              found |-> FALSE, header |-> <<>>]

\* parse_include after the nested parser_preprocess
parse_include_end(p) == parse("skip_directive", <<[p EXCEPT !.include = @ - 1]>>)

\* case KW_INCLUDE of parser_preprocess
ParseInclude ==
    /\ UNCHANGED gen
    /\ pc = "directive"
    /\ \E d \in {parse("parse_directive", <<prs>>)} :
           /\ d.keyword = KW_INCLUDE
           /\ \E inc \in {parse("parse_include", <<d.p>>)} :
                  IF inc.found
                  THEN /\ frames' = Append(frames, Frame("include", inc.p, lc))
                       /\ prs' = preprocess_enter(inc.p, inc.header, TRUE)
                  ELSE /\ prs' = inc.p
                       /\ UNCHANGED frames
    /\ UNCHANGED <<pc, lc>>

\* parse_until reads an identifier that is not a macro
Identifier ==
    /\ UNCHANGED gen
    /\ pc = "until"
    /\ \E s \in {parse("parse_until_search", <<prs>>)} :
           /\ s.is_identifier
           /\ s.index = SIZE_MAX
           /\ prs' = uni_printf(s.p, s.last_read)
    /\ UNCHANGED <<frames, pc, lc>>

\* parse_until reads a macro name at the call depth limit
CallDepth ==
    /\ UNCHANGED gen
    /\ pc = "until"
    /\ \E s \in {parse("parse_until_search", <<prs>>)} :
           /\ s.is_identifier
           /\ s.index # SIZE_MAX
           /\ is_call_depth(s.p)
           /\ prs' = parce_identifier_depth(s.p, s.last_read)
    /\ UNCHANGED <<frames, pc, lc>>

\* parse_until reads the name of a macro without parameters: its value is
\* preprocessed
Replacement ==
    /\ UNCHANGED gen
    /\ pc = "until"
    /\ \E s \in {parse("parse_until_search", <<prs>>)} :
           /\ s.is_identifier
           /\ s.index # SIZE_MAX
           /\ ~is_call_depth(s.p)
           /\ storage_get_args_by_index(s.p.stg, s.index) = 0
           /\ \E p1 \in {parse("parse_replacement_pair", <<parce_identifier_begin(s.p)>>)} :
                  /\ frames' = Append(frames, Frame("replacement", p1, lc))
                  /\ prs' = preprocess_enter(p1, storage_get_by_index(p1.stg, s.index), FALSE)
    /\ pc' = "directive"
    /\ UNCHANGED lc

\* parse_until reads the name of a macro with parameters and no '(' follows
ArgsNon ==
    /\ UNCHANGED gen
    /\ pc = "until"
    /\ \E s \in {parse("parse_until_search", <<prs>>)} :
           /\ s.is_identifier
           /\ s.index # SIZE_MAX
           /\ ~is_call_depth(s.p)
           /\ storage_get_args_by_index(s.p.stg, s.index) # 0
           /\ \E p1 \in {parce_identifier_begin(s.p)} :
                  /\ parse("skip_lines", <<p1>>).r # "("
                  /\ prs' = parce_identifier_end(parse("parse_replacement_non", <<p1>>), p1.file)
    /\ UNCHANGED <<frames, pc, lc>>

\* parse_until reads the name of a macro with parameters and '(' follows:
\* parse_brackets is entered
Brackets ==
    /\ UNCHANGED gen
    /\ pc = "until"
    /\ \E s \in {parse("parse_until_search", <<prs>>)} :
           /\ s.is_identifier
           /\ s.index # SIZE_MAX
           /\ ~is_call_depth(s.p)
           /\ storage_get_args_by_index(s.p.stg, s.index) # 0
           /\ \E open \in {parse("skip_lines", <<parce_identifier_begin(s.p)>>)} :
                  /\ open.r = "("
                  /\ prs' = [open.p EXCEPT !.out = NoOut]
                  /\ lc' = [Locals(lc.position) EXCEPT
                               !.index = s.index,
                               !.expected = storage_get_args_by_index(s.p.stg, s.index),
                               !.out = open.p.out]
    /\ pc' = "brackets"
    /\ UNCHANGED frames

\* the number of iterations of one inner loop of parse_brackets followed
IterCap == MAX_ITERATION + 1

\* the outer while of parse_brackets: the next actual argument starts
BracketsOuter ==
    /\ UNCHANGED gen
    /\ pc = "brackets"
    /\ lc.character # ")" /\ lc.character # EOF
    /\ \E res \in {parse("skip_lines", <<uni_scan_char(prs)>>)} :
           /\ prs' = [res.p EXCEPT !.out = Buffer]
           /\ lc' = [lc EXCEPT !.character = res.r, !.bpos = in_get_position(res.p),
                               !.brackets = 0, !.iter = 0]
    /\ pc' = "inner"
    /\ UNCHANGED frames

\* one iteration of the inner while of parse_brackets
BracketsInner ==
    /\ UNCHANGED gen
    /\ pc = "inner"
    /\ brackets_inner_cond(lc.brackets, lc.character)
    /\ lc.iter < IterCap
    /\ \E it \in {parse("brackets_inner", <<prs, lc>>)} :
           /\ prs' = it.p
           /\ lc' = it.l
    /\ UNCHANGED <<frames, pc>>

\* parse_values: the argument read is preprocessed
ParseValues ==
    /\ UNCHANGED gen
    /\ pc = "inner"
    /\ ~brackets_inner_cond(lc.brackets, lc.character)
    /\ lc.arg # SIZE_MAX
    /\ \E l \in {[lc EXCEPT !.stg = parse("parse_values_paste",
                                          <<@, lc.index, prs.out.s, lc.arg>>)]} :
           /\ frames' = Append(frames, Frame("value", prs, l))
           /\ prs' = preprocess_enter([prs EXCEPT !.out = Buffer], prs.out.s, FALSE)
    /\ pc' = "directive"
    /\ UNCHANGED lc

\* the argument list is broken: no value is stored for this argument
BracketsSkip ==
    /\ UNCHANGED gen
    /\ pc = "inner"
    /\ ~brackets_inner_cond(lc.brackets, lc.character)
    /\ lc.arg = SIZE_MAX
    /\ pc' = "brackets"
    /\ UNCHANGED <<prs, frames, lc>>

\* parse_brackets returns the expected count: parse_observation
Observation ==
    /\ UNCHANGED gen
    /\ pc = "brackets"
    /\ lc.character = ")" \/ lc.character = EOF
    /\ lc.expected = lc.arg
    /\ \E obs \in {parse("parse_observation", <<[prs EXCEPT !.out = lc.out], lc.index, lc.stg>>)} :
           /\ frames' = Append(frames, Frame("observation", obs.p, lc))
           /\ prs' = preprocess_enter(obs.p, obs.buffer, FALSE)
    /\ pc' = "directive"
    /\ UNCHANGED lc

\* parse_brackets returns another count: the call is dropped
ArgsCount ==
    /\ UNCHANGED gen
    /\ pc = "brackets"
    /\ lc.character = ")" \/ lc.character = EOF
    /\ lc.expected # lc.arg
    /\ prs' = parce_identifier_end(
                  uni_scan_char(parse_replacement_count([prs EXCEPT !.out = lc.out],
                                                        lc.expected, lc.arg)),
                  prs.file)
    /\ lc' = Locals(lc.position)
    /\ pc' = "until"
    /\ UNCHANGED frames

\* parser_preprocess of a macro value returns into parse_replacement and
\* parce_identifier
ReturnReplacement ==
    /\ UNCHANGED gen
    /\ pc = "return"
    /\ frames # <<>>
    /\ \E frame \in {frames[Len(frames)]} :
           /\ frame.ret \in {"replacement", "observation"}
           /\ \E p1 \in {preprocess_leave(prs, frame)} :
                  prs' = parce_identifier_end(
                             IF frame.ret = "observation" THEN uni_scan_char(p1) ELSE p1,
                             frame.file)
           /\ lc' = Locals(frame.lc.position)
    /\ frames' = SubSeq(frames, 1, Len(frames) - 1)
    /\ pc' = "until"

\* parser_preprocess of an argument returns into parse_values
ReturnValues ==
    /\ UNCHANGED gen
    /\ pc = "return"
    /\ frames # <<>>
    /\ \E frame \in {frames[Len(frames)]} :
           /\ frame.ret = "value"
           /\ prs' = preprocess_leave([prs EXCEPT !.out = NoOut], frame)
           /\ lc' = [frame.lc EXCEPT
                        !.stg = parse("parse_values_masks",
                                      <<@, frame.lc.index, prs.in, prs.out.s, frame.lc.arg>>),
                        !.arg = @ + 1]
    /\ frames' = SubSeq(frames, 1, Len(frames) - 1)
    /\ pc' = "brackets"

\* parser_preprocess of a header returns into parse_include
ReturnInclude ==
    /\ UNCHANGED gen
    /\ pc = "return"
    /\ frames # <<>>
    /\ \E frame \in {frames[Len(frames)]} :
           /\ frame.ret = "include"
           /\ prs' = parse("parse_include_end", <<preprocess_leave(prs, frame)>>)
           /\ lc' = frame.lc
    /\ frames' = SubSeq(frames, 1, Len(frames) - 1)
    /\ pc' = "directive"

\* parser_preprocess of the main file returns
Finish ==
    /\ UNCHANGED gen
    /\ pc = "return"
    /\ frames = <<>>
    /\ pc' = "done"
    /\ UNCHANGED <<prs, frames, lc>>

NextPre ==
    \/ ParseLine \/ ParseInclude \/ ParseDefine \/ ParseSet \/ ParseUndef \/ ParseText
    \/ ParseUntil \/ Identifier \/ CallDepth \/ Replacement \/ ArgsNon \/ Brackets
    \/ BracketsOuter \/ BracketsInner \/ ParseValues \/ BracketsSkip
    \/ Observation \/ ArgsCount
    \/ ReturnReplacement \/ ReturnValues \/ ReturnInclude \/ Finish

\* ------------------------------------------------------------------------
\* the texts preprocessed
\* ------------------------------------------------------------------------

\* #define A B\n
DefineAB == <<"#", "d", "e", "f", "i", "n", "e", " ", "A", " ", "B", "\n">>

\* #define A(x) C\n
DefineAC == <<"#", "d", "e", "f", "i", "n", "e", " ", "A", "(", "x", ")",
    " ", "C", "\n">>

\* #define A A\n
DefineAA == <<"#", "d", "e", "f", "i", "n", "e", " ", "A", " ", "A", "\n">>

\* #set A D\n
SetA == <<"#", "s", "e", "t", " ", "A", " ", "D", "\n">>

\* #undef A\n
UndefA == <<"#", "u", "n", "d", "e", "f", " ", "A", "\n">>

\* #undef B\n
UndefB == <<"#", "u", "n", "d", "e", "f", " ", "B", "\n">>

\* A B\n
UseAB == <<"A", " ", "B", "\n">>

\* #define F b\n
DefineF == <<"#", "d", "e", "f", "i", "n", "e", " ", "F", " ", "b", "\n">>

\* #define F() b\n
DefineF0 == <<"#", "d", "e", "f", "i", "n", "e", " ", "F", "(", ")", " ",
    "b", "\n">>

\* #define F(x) x\n
DefineF1 == <<"#", "d", "e", "f", "i", "n", "e", " ", "F", "(", "x", ")",
    " ", "x", "\n">>

\* #define F(x) #x\n
DefineFString == <<"#", "d", "e", "f", "i", "n", "e", " ", "F", "(", "x",
    ")", " ", "#", "x", "\n">>

\* #define F(x) x##_\n
DefineFPaste == <<"#", "d", "e", "f", "i", "n", "e", " ", "F", "(", "x", ")",
    " ", "x", "#", "#", "_", "\n">>

\* #define F(x, y) y##x\n
DefineF2 == <<"#", "d", "e", "f", "i", "n", "e", " ", "F", "(", "x", ",",
    " ", "y", ")", " ", "y", "#", "#", "x", "\n">>

\* F
CallName == <<"F">>

\* F()
CallPair == <<"F", "(", ")">>

\* F ( )
CallPairBlanks == <<"F", " ", "(", " ", ")">>

\* F\n(\n)
CallPairLines == <<"F", "\n", "(", "\n", ")">>

\* F (
CallOpen == <<"F", " ", "(">>

\* F (a)
CallOther == <<"F", " ", "(", "a", ")">>

\* F\n a
CallText == <<"F", "\n", " ", "a">>

\* F(A)
CallA == <<"F", "(", "A", ")">>

\* F(a, A)
CallTwo == <<"F", "(", "a", ",", " ", "A", ")">>

\* F((a), "b")
CallNested == <<"F", "(", "(", "a", ")", ",", " ", "\"", "b", "\"", ")">>

\* F("a)
CallBroken == <<"F", "(", "\"", "a", ")">>

\* F((a
CallUnterminated == <<"F", "(", "(", "a">>

\*  z\n
Rest == <<" ", "z", "\n">>

\* #include "h"\n
IncludeH == <<"#", "i", "n", "c", "l", "u", "d", "e", " ", "\"", "h", "\"",
    "\n">>

\* #include <h> x\n
IncludeAngle == <<"#", "i", "n", "c", "l", "u", "d", "e", " ", "<", "h", ">",
    " ", "x", "\n">>

\* #include "q"\n
IncludeMissing == <<"#", "i", "n", "c", "l", "u", "d", "e", " ", "\"", "q",
    "\"", "\n">>

\* #include h\n
IncludeName == <<"#", "i", "n", "c", "l", "u", "d", "e", " ", "h", "\n">>

\* #include "h\n
IncludeOpen == <<"#", "i", "n", "c", "l", "u", "d", "e", " ", "\"", "h", "\n">>

\* h
PathH == <<"h">>

\* #include "h"\nA\n
HeaderSelf == <<"#", "i", "n", "c", "l", "u", "d", "e", " ", "\"", "h", "\"",
    "\n", "A", "\n">>

\* #define A B\n
HeaderDefine == <<"#", "d", "e", "f", "i", "n", "e", " ", "A", " ", "B", "\n">>

\* #line 5\nA\n
LineDirective == <<"#", "l", "i", "n", "e", " ", "5", "\n", "A", "\n">>

\* F(
CallOf == <<"F", "(">>

\* )
CallEnd == <<")">>

\* F(a
CallArgument == <<"F", "(", "a">>

\* F(a,
CallComma == <<"F", "(", "a", ",">>


\* the directives of a list of directives number at most MaxDirectives
MaxDirectives == 2

\* the characters of an actual argument number at most MaxArgument
MaxArgument == 3

DirectiveLines == {DefineAB, DefineAC, SetA, UndefA, UndefB}

RECURSIVE DirectiveLists(_)

DirectiveLists(n) ==
    IF n = 0 THEN {<<>>}
    ELSE {b \o d : b \in DirectiveLists(n - 1), d \in DirectiveLines \cup {<<>>}}

Definitions == {DefineF, DefineF0, DefineF1, DefineFString, DefineFPaste, DefineF2}

Calls == {CallName, CallPair, CallPairBlanks, CallPairLines, CallOpen, CallOther,
          CallText, CallA, CallTwo, CallNested, CallBroken}

ArgumentChars == {"a", "A", "\"", "\\"}

RECURSIVE Arguments(_)

Arguments(n) ==
    IF n = 0 THEN {<<>>}
    ELSE {a \o c : a \in Arguments(n - 1), c \in {<<>>} \cup {<<ch>> : ch \in ArgumentChars}}

Includes == {IncludeH, IncludeAngle, IncludeMissing, IncludeName, IncludeOpen}

\* a main file and the headers the linker finds
Program(main, lk) == [main |-> main, lk |-> lk]

Programs ==
    {Program(d \o UseAB, <<>>) : d \in DirectiveLists(MaxDirectives)} \cup
    {Program(DefineAB \o m \o c \o Rest, <<>>) : m \in Definitions, c \in Calls} \cup
    {Program(DefineAB \o DefineFString \o CallOf \o a \o CallEnd \o Rest, <<>>) :
         a \in Arguments(MaxArgument)} \cup
    {Program(i \o UseAB, PathH :> h) : i \in Includes, h \in {HeaderDefine, HeaderSelf}} \cup
    {Program(DefineF1 \o CallUnterminated, <<>>),
     Program(DefineF1 \o CallOf, <<>>),
     Program(DefineF1 \o CallArgument, <<>>),
     Program(DefineF2 \o CallComma, <<>>),
     Program(DefineAA \o UseAB, <<>>),
     Program(DefineAA \o IncludeH, PathH :> HeaderSelf),
     Program(LineDirective, <<>>)}

\* the operators of the preprocessor by name
parse(f, a) ==
    CASE f = "skip_comment" -> skip_comment(a[1])
      [] f = "multi_comment_first" -> multi_comment_first(a[1], a[2], a[3])
      [] f = "multi_comment_rest" -> multi_comment_rest(a[1], a[2], a[3], a[4])
      [] f = "skip_multi_comment" -> skip_multi_comment(a[1])
      [] f = "skip_string_loop" -> skip_string_loop(a[1], a[2], a[3], a[4])
      [] f = "skip_until_loop" -> skip_until_loop(a[1])
      [] f = "read_lexeme" -> read_lexeme(a[1])
      [] f = "storage_add_by_io" -> storage_add_by_io(a[1], a[2])
      [] f = "parse_name" -> parse_name(a[1])
      [] f = "parse_args_loop" -> parse_args_loop(a[1], a[2], a[3], a[4])
      [] f = "parse_args" -> parse_args(a[1], a[2])
      [] f = "search_value" -> search_value(a[1], a[2])
      [] f = "parse_operator" -> parse_operator(a[1], a[2], a[3], a[4])
      [] f = "parse_content_loop" -> parse_content_loop(a[1], a[2], a[3], a[4], a[5])
      [] f = "parse_content" -> parse_content(a[1], a[2], a[3])
      [] f = "parse_context" -> parse_context(a[1], a[2])
      [] f = "parse_hash_loop" -> parse_hash_loop(a[1], a[2])
      [] f = "parse_directive" -> parse_directive(a[1])
      [] f = "parse_until_char" -> parse_until_char(a[1], a[2])
      [] f = "parse_until_loop" -> parse_until_loop(a[1], a[2])
      [] f = "parse_define" -> parse_define(a[1])
      [] f = "parse_set" -> parse_set(a[1])
      [] f = "parse_undef" -> parse_undef(a[1])
      [] f = "parse_replacement_pair" -> parse_replacement_pair(a[1])
      [] f = "parse_replacement_non" -> parse_replacement_non(a[1])
      [] f = "brackets_inner" -> brackets_inner(a[1], a[2])
      [] f = "storage_add_value" -> storage_add_value(a[1], a[2], a[3])
      [] f = "parse_observation_loop" -> parse_observation_loop(a[1], a[2])
      [] f = "parse_include_path" -> parse_include_path(a[1], a[2])
      [] f = "parse_include" -> parse_include(a[1])
      [] f = "skip_string" -> skip_string(a[1], a[2])
      [] f = "skip_until" -> skip_until(a[1], a[2])
      [] f = "skip_lines_loop" -> skip_lines_loop(a[1])
      [] f = "skip_lines" -> skip_lines(a[1])
      [] f = "storage_search" -> storage_search(a[1], a[2])
      [] f = "parse_hash" -> parse_hash(a[1])
      [] f = "skip_directive" -> skip_directive(a[1])
      [] f = "parse_line" -> parse_line(a[1])
      [] f = "parse_values_paste" -> parse_values_paste(a[1], a[2], a[3], a[4])
      [] f = "parse_values_masks" -> parse_values_masks(a[1], a[2], a[3], a[4], a[5])
      [] f = "parse_observation" -> parse_observation(a[1], a[2], a[3])
      [] f = "parse_include_end" -> parse_include_end(a[1])
      [] f = "parse_until_search" -> parse_until_search(a[1])

\* ========================================================================
\* The MIPS code generator (mipsgen.c)
\* ========================================================================
\* `info` is the information structure; its field io is the text written to
\* info->sx->io as a sequence of tokens (mnemonics, registers, labels,
\* immediates and the strings that end a line or declare a label), and
\* failed records a failed assert.

WORD_LENGTH == 4

LOW_DYN_BORDER == 268500992

HEAP_DISPL == 8000

SP_SIZE == 4

RA_SIZE == 4

TEMP_FP_REG_AMOUNT == 12

TEMP_REG_AMOUNT == 8

\* identifiers from FloatIdent on are floating variables, the others integer
FloatIdent == 20

\* the value hash_get returns for a key that is not in the table
ITEM_MAX == 2147483647

ARG_REG_AMOUNT == 4

PRESERVED_REG_AMOUNT == 8

PRESERVED_FP_REG_AMOUNT == 10

\* 4 for $sp, 4 for $ra, 5 * 4 for fs0-fs10, 8 * 4 for s0-s7, 4 * 4 for a0-a3
FUNC_DISPL_PRESEREVED == 4 + 4 + 5 * 4 + 8 * 4 + 4 * 4

\* mips_register_t
R_ZERO == 0

R_A0 == 4

R_S0 == 16

R_GP == 28

R_RA == 31

R_FS0 == 52

R_V0 == 2

R_T0 == 8

R_T7 == 15

R_T8 == 24

R_T9 == 25

R_SP == 29

R_FP == 30

R_FT0 == 40

R_FV0 == 32

R_FA0 == 36

\* lvalue_kind_t
LVALUE_KIND_STACK == 0

LVALUE_KIND_REGISTER == 1

\* whether a variable is kept on the stack
IS_ON_STACK == TRUE

R_FT11 == 51

\* the tokens of the output
Ins(s) == [t |-> "ins", s |-> s, n |-> 0]

Reg(n) == [t |-> "reg", s |-> "", n |-> n]

Imm(n) == [t |-> "imm", s |-> "", n |-> n]

Txt(s) == [t |-> "text", s |-> s, n |-> 0]

Lbl(lbl) == [t |-> "label", s |-> lbl.kind, n |-> lbl.num]

\* uni_printf and the *_to_io functions on info->sx->io
to_io(info, tokens) == [info EXCEPT !.io = @ \o tokens]

\* variant: get_register that hands out $t0 whether it is free or not
get_register_first(info) == [info |-> [info EXCEPT !.registers[0] = TRUE], reg |-> R_T0]

\* get_register: the first free temporary, which becomes busy
get_register(info) ==
    IF \E i \in 0..(TEMP_REG_AMOUNT - 1) : ~info.registers[i]
    THEN LET i == CHOOSE i \in 0..(TEMP_REG_AMOUNT - 1) :
                      /\ ~info.registers[i]
                      /\ \A j \in 0..(i - 1) : info.registers[j]
         IN  [info |-> [info EXCEPT !.registers[i] = TRUE], reg |-> i + R_T0]
    ELSE [info |-> [info EXCEPT !.failed = TRUE], reg |-> TEMP_REG_AMOUNT + R_T0]

\* the slots get_float_register looks at
float_slots == {i \in 8..(TEMP_FP_REG_AMOUNT + TEMP_REG_AMOUNT - 1) : i % 2 = 0}

\* get_float_register: the first free even slot from 8 on
get_float_register(info) ==
    IF \E i \in float_slots : ~info.registers[i]
    THEN LET i == CHOOSE i \in float_slots :
                      /\ ~info.registers[i]
                      /\ \A j \in float_slots : j < i => info.registers[j]
         IN  [info |-> [info EXCEPT !.registers[i] = TRUE], reg |-> i + R_FT0 - 10]
    ELSE [info |-> [info EXCEPT !.failed = TRUE],
          reg |-> TEMP_FP_REG_AMOUNT + TEMP_REG_AMOUNT + R_FT0 - 10]

type_is_floating(type) == type = "float"

\* type_is_floating(type) ? get_float_register(info) : get_register(info)
get_register_of(info, type) ==
    IF type_is_floating(type) THEN get_float_register(info) ELSE get_register(info)

\* free_register
free_register(info, reg) ==
    IF reg >= R_T0 /\ reg <= R_T7 THEN [info EXCEPT !.registers[reg - R_T0] = FALSE]
    ELSE IF reg = R_T8 \/ reg = R_T9 THEN [info EXCEPT !.registers[reg - R_T8 + 8] = FALSE]
    ELSE IF reg >= R_FT0 /\ reg <= R_FT11 THEN [info EXCEPT !.registers[reg - R_FT0 + 10] = FALSE]
    ELSE info

\* free_rvalue
free_rvalue(info, rval) ==
    IF rval.kind = "REGISTER" /\ ~rval.from_lvalue
    THEN free_register(info, rval.val)
    ELSE info

\* the rvalue and lvalue structures
rvalue(kind, type, from_lvalue, val) ==
    [kind |-> kind, type |-> type, from_lvalue |-> from_lvalue, val |-> val]

lvalue(kind, base_reg, loc, type) ==
    [kind |-> kind, base_reg |-> base_reg, loc |-> loc, type |-> type]

rvalue_void == rvalue("VOID", "void", FALSE, 0)

rvalue_one == rvalue("CONST", "int", FALSE, 1)

rvalue_negative_one == rvalue("CONST", "int", FALSE, -1)

\* the label structure
label(kind, num) == [kind |-> kind, num |-> num]

\* the identifier table of the syntax structure: the type of an identifier
ident_get_type(identifier) == IF identifier >= FloatIdent THEN "float" ELSE "int"

\* hash_add and hash_set_by_index: the record of a key is the sequence of its
\* values
hash_set(hash, key, values) == (key :> values) @@ hash

\* hash_get: the value num of the record of a key, ITEM_MAX when the record
\* has no such value
hash_get(hash, key, num) ==
    IF key \in DOMAIN hash /\ num < Len(hash[key]) THEN hash[key][num + 1] ELSE ITEM_MAX

\* a bool stored as an item
item_of(flag) == IF flag THEN 1 ELSE 0

\* an item read as lvalue_kind_t
lvalue_kind(item) ==
    IF item = LVALUE_KIND_STACK THEN "STACK"
    ELSE IF item = LVALUE_KIND_REGISTER THEN "REGISTER"
    ELSE "NEITHER"

\* displacements_add: the identifier is placed at info->max_displ
displacements_add(info, identifier) ==
    LET displacement == info.max_displ
        base_reg == R_SP
        lval == lvalue(lvalue_kind(LVALUE_KIND_STACK), base_reg, displacement,
                       ident_get_type(identifier))
    IN  [info |-> [info EXCEPT !.displacements =
                                   hash_set(@, identifier,
                                            <<LVALUE_KIND_STACK, displacement, base_reg>>)],
         lval |-> lval]

\* displacements_get
displacements_get(info, identifier) ==
    lvalue(lvalue_kind(hash_get(info.displacements, identifier, 0)),
           hash_get(info.displacements, identifier, 2),
           hash_get(info.displacements, identifier, 1),
           ident_get_type(identifier))

\* emit_label: the name of the label
emit_label(info, lbl) == to_io(info, <<Lbl(lbl)>>)

\* emit_label_declaration
emit_label_declaration(info, lbl) == to_io(emit_label(info, lbl), <<Txt(":\n")>>)

\* emit_unconditional_branch
emit_unconditional_branch(info, lbl) ==
    to_io(emit_label(to_io(info, <<Ins("j")>>), lbl), <<Txt("\n")>>)

\* rvalue_to_io: the register or the constant
rvalue_to_io(rval) == IF rval.kind = "CONST" THEN Imm(rval.val) ELSE Reg(rval.val)

\* variant: the branch is taken whatever the value is
emit_conditional_branch_taken(info, value, lbl) == emit_unconditional_branch(info, lbl)

\* emit_conditional_branch
emit_conditional_branch(info, value, lbl) ==
    IF value.kind = "CONST"
    THEN IF value.val = 0 THEN emit_unconditional_branch(info, lbl) ELSE info
    ELSE to_io(emit_label(to_io(info, <<Ins("beq"), rvalue_to_io(value), Reg(R_ZERO)>>), lbl),
               <<Txt("\n")>>)

\* emit_load_of_lvalue
emit_load_of_lvalue(info, lval) ==
    IF lval.kind = "REGISTER"
    THEN [info |-> info, rval |-> rvalue("REGISTER", lval.type, TRUE, lval.loc)]
    ELSE LET got == emit("get_register_of", <<info, lval.type>>)
             result == rvalue("REGISTER", lval.type, FALSE, got.reg)
         IN  [info |-> free_register(
                           to_io(got.info, <<Ins("l.s"), rvalue_to_io(result), Imm(lval.loc),
                                             Reg(lval.base_reg), Txt("\n")>>),
                           lval.base_reg),
              rval |-> result]

\* emit_store_rvalue_to_rvalue
emit_store_rvalue_to_rvalue(info, destination, source) ==
    IF source.kind = "CONST"
    THEN to_io(info, <<Ins(IF type_is_floating(source.type) THEN "li.s" ELSE "li"),
                       rvalue_to_io(destination), rvalue_to_io(source), Txt("\n")>>)
    ELSE IF destination.val = source.val
    THEN to_io(info, <<Txt("# stays in register"), Reg(destination.val), Txt("\n")>>)
    ELSE to_io(info, <<Ins(IF type_is_floating(source.type) THEN "mov.s" ELSE "move"),
                       rvalue_to_io(destination), rvalue_to_io(source), Txt("\n")>>)

\* the constant of an rvalue is loaded into a new register
rvalue_to_register(info, rval) ==
    LET got == emit("get_register_of", <<info, rval.type>>)
        loaded == rvalue("REGISTER", rval.type, FALSE, got.reg)
    IN  [info |-> emit("emit_store_rvalue_to_rvalue", <<got.info, loaded, rval>>), rval |-> loaded]

\* emit_store_of_rvalue for scalar types
emit_store_of_rvalue(info, rval, lval) ==
    LET loaded == IF rval.kind = "CONST" THEN emit("rvalue_to_register", <<info, rval>>)
                  ELSE [info |-> info, rval |-> rval]
        floating == type_is_floating(loaded.rval.type)
    IN  IF lval.kind = "REGISTER"
        THEN to_io(loaded.info,
                   <<Ins(IF floating THEN "mov.s" ELSE "move"), rvalue_to_io(loaded.rval),
                     rvalue_to_io(emit("emit_load_of_lvalue", <<loaded.info, lval>>).rval), Txt("\n")>>)
        ELSE to_io(loaded.info,
                   <<Ins(IF floating THEN "s.s" ELSE "sw"), rvalue_to_io(loaded.rval),
                     Imm(lval.loc), Reg(lval.base_reg), Txt("\n")>>)

\* the relational operators of emit_binary_operation
is_comparison(operation) ==
    operation \in {"BIN_LT", "BIN_GT", "BIN_LE", "BIN_GE", "BIN_EQ", "BIN_NE"}

\* the branch chosen for a relational operator
comparison_instruction(operation) ==
    CASE operation = "BIN_GT" -> Ins("bgtz")
      [] operation = "BIN_LT" -> Ins("bltz")
      [] operation = "BIN_GE" -> Ins("bgez")
      [] operation = "BIN_LE" -> Ins("blez")
      [] operation = "BIN_EQ" -> Ins("beq")
      [] OTHER -> Ins("bne")

\* get_bin_instruction: the mnemonic of the operation, immediate form or not
get_bin_instruction(operation, is_imm) ==
    CASE operation \in {"BIN_ADD_ASSIGN", "BIN_ADD"} -> Ins(IF is_imm # 0 THEN "addi" ELSE "add")
      [] operation \in {"BIN_SUB_ASSIGN", "BIN_SUB"} -> Ins(IF is_imm # 0 THEN "addi" ELSE "sub")
      [] operation \in {"BIN_MUL_ASSIGN", "BIN_MUL"} -> Ins("mul")
      [] operation \in {"BIN_DIV_ASSIGN", "BIN_DIV"} -> Ins("div")
      [] operation \in {"BIN_REM_ASSIGN", "BIN_REM"} -> Ins("mod")
      [] operation \in {"BIN_SHL_ASSIGN", "BIN_SHL"} -> Ins(IF is_imm # 0 THEN "sll" ELSE "sllv")
      [] operation \in {"BIN_SHR_ASSIGN", "BIN_SHR"} -> Ins(IF is_imm # 0 THEN "sra" ELSE "srav")
      [] operation \in {"BIN_AND_ASSIGN", "BIN_AND"} -> Ins(IF is_imm # 0 THEN "andi" ELSE "and")
      [] operation \in {"BIN_XOR_ASSIGN", "BIN_XOR"} -> Ins(IF is_imm # 0 THEN "xori" ELSE "xor")
      [] operation \in {"BIN_OR_ASSIGN", "BIN_OR"} -> Ins(IF is_imm # 0 THEN "ori" ELSE "or")
      [] operation = "BIN_EQ" -> Ins("beq")
      [] operation = "BIN_NE" -> Ins("bne")
      [] operation = "BIN_GT" -> Ins("bgtz")
      [] operation = "BIN_LT" -> Ins("bltz")
      [] operation = "BIN_GE" -> Ins("bgez")
      [] operation = "BIN_LE" -> Ins("blez")
      [] OTHER -> Ins("nop")

\* the text of a comparison after its subtraction; is_jump tells whether the
\* end label is the target of a jump or only written
comparison_to_io(info, operation, result, label_else, label_end, is_jump) ==
    LET branch == emit_label(to_io(info, <<comparison_instruction(operation),
                                           rvalue_to_io(result)>>), label_else)
        one == to_io(branch, <<Ins("li"), rvalue_to_io(result), Imm(1), Txt("\n")>>)
        toend == IF is_jump THEN emit_unconditional_branch(one, label_end)
                 ELSE emit_label(one, label_end)
        zero == to_io(emit_label(toend, label_else),
                      <<Ins("li"), rvalue_to_io(result), Imm(0), Txt("\n")>>)
    IN  to_io(emit_label_declaration(zero, label_end), <<Txt("\n")>>)

\* emit_binary_operation for two operands in registers
binary_operation_registers(info, rval1, rval2, operation) ==
    LET both == ~rval1.from_lvalue /\ ~rval2.from_lvalue
        got == IF ~both /\ rval1.from_lvalue /\ rval2.from_lvalue
               THEN emit("get_register_of", <<info, rval1.type>>)
               ELSE [info |-> info,
                     reg |-> IF both
                             THEN (IF rval1.val > rval2.val THEN rval2.val ELSE rval1.val)
                             ELSE IF rval1.from_lvalue THEN rval2.val ELSE rval1.val]
        freeing_rvalue == IF both
                          THEN (IF rval1.val > rval2.val THEN rval1 ELSE rval2)
                          ELSE rvalue_void
        result_rvalue == rvalue("REGISTER", rval1.type, FALSE, got.reg)
        curr_label_num == got.info.label_num
        sub == to_io([got.info EXCEPT !.label_num = @ + 1],
                     <<Ins("sub"), rvalue_to_io(result_rvalue), rvalue_to_io(rval1),
                       rvalue_to_io(rval2), Txt("\n")>>)
        done == IF is_comparison(operation)
                THEN emit("comparison_to_io", <<sub, operation, result_rvalue,
                                      label("L_ELSE", curr_label_num),
                                      label("L_END", curr_label_num), FALSE>>)
                ELSE to_io(got.info, <<get_bin_instruction(operation, 0),
                                       rvalue_to_io(result_rvalue), rvalue_to_io(rval1),
                                       rvalue_to_io(rval2), Txt("\n")>>)
    IN  [info |-> free_rvalue(done, freeing_rvalue), rval |-> result_rvalue]

RECURSIVE emit_binary_operation(_, _, _, _)

\* emit_binary_operation for a register and a constant, the constant in rval2
binary_operation_constant(info, rval1, rval2, operation) ==
    LET got == IF rval1.from_lvalue THEN emit("get_register_of", <<info, rval1.type>>)
               ELSE [info |-> info, reg |-> rval1.val]
        result_rvalue == rvalue("REGISTER", rval1.type, FALSE, got.reg)
        curr_label_num == got.info.label_num
        compared == emit("rvalue_to_register", <<[got.info EXCEPT !.label_num = @ + 1], rval2>>)
        sub == to_io(compared.info,
                     <<Ins("sub"), rvalue_to_io(result_rvalue), rvalue_to_io(rval1),
                       Reg(compared.rval.val), Txt("\n")>>)
        loaded == IF operation \in {"BIN_SUB", "BIN_DIV", "BIN_MUL", "BIN_REM"}
                  THEN emit("rvalue_to_register", <<got.info, rval2>>)
                  ELSE [info |-> got.info, rval |-> rval2]
        negated == IF operation = "BIN_SUB"
                   THEN emit("emit_binary_operation", <<loaded.info, loaded.rval,
                                              rvalue_negative_one, "BIN_MUL">>).info
                   ELSE loaded.info
        written == to_io(negated, <<get_bin_instruction(operation, 1),
                                    rvalue_to_io(result_rvalue), rvalue_to_io(rval1),
                                    rvalue_to_io(loaded.rval), Txt("\n")>>)
    IN  [info |-> IF is_comparison(operation)
                  THEN emit("comparison_to_io", <<sub, operation, result_rvalue,
                                        label("L_ELSE", curr_label_num),
                                        label("L_END", curr_label_num), TRUE>>)
                  ELSE free_rvalue(written, loaded.rval),
         rval |-> result_rvalue]

\* emit_binary_operation
emit_binary_operation(info, rval1, rval2, operation) ==
    IF rval1.kind = "REGISTER" /\ rval2.kind = "REGISTER"
    THEN emit("binary_operation_registers", <<info, rval1, rval2, operation>>)
    ELSE IF rval2.kind # "CONST"
    THEN emit("binary_operation_constant", <<info, rval2, rval1, operation>>)
    ELSE emit("binary_operation_constant", <<info, rval1, rval2, operation>>)

\* ------------------------------------------------------------------------
\* The nodes of the tree: class, operator, number (identifier or value),
\* type and children
\* ------------------------------------------------------------------------
node(class, op, n, type, kids) ==
    [class |-> class, op |-> op, n |-> n, type |-> type, kids |-> kids]

expression_get_class(nd) == nd.class

expression_get_type(nd) == nd.type

\* expression_is_lvalue: of the modelled classes the identifier is the lvalue
expression_is_lvalue(nd) == nd.class = "EXPR_IDENTIFIER"

\* statement_get_class: an expression node is an expression statement
statement_get_class(nd) ==
    IF nd.class \in {"EXPR_IDENTIFIER", "EXPR_LITERAL", "EXPR_UNARY", "EXPR_BINARY",
                     "EXPR_ASSIGNMENT", "EXPR_TERNARY", "EXPR_CALL"}
    THEN "STMT_EXPR"
    ELSE nd.class

\* emit_identifier_lvalue
emit_identifier_lvalue(info, nd) == displacements_get(info, nd.n)

\* emit_lvalue (identifiers)
emit_lvalue(info, nd) == emit_identifier_lvalue(info, nd)

\* emit_literal_expression
emit_literal_expression(nd) ==
    IF nd.type \in {"int", "float"}
    THEN rvalue("CONST", nd.type, FALSE, nd.n)
    ELSE rvalue_void

\* emit_inc_dec_expression, after the operand has been located
emit_inc_dec_expression(info, nd) ==
    LET operation == nd.op
        post == operation \in {"UN_POSTDEC", "UN_POSTINC"}
        identifier_lvalue == emit_lvalue(info, nd.kids[1])
        identifier == emit("emit_load_of_lvalue", <<info, identifier_lvalue>>)
        identifier_rvalue == identifier.rval
        got == get_register(identifier.info)
        post_result_rvalue == rvalue("REGISTER", identifier_lvalue.type, TRUE, got.reg)
        saved == IF post
                 THEN emit("emit_store_rvalue_to_rvalue", <<got.info, post_result_rvalue,
                                                  identifier_rvalue>>)
                 ELSE got.info
        changed == emit("emit_binary_operation", <<saved, identifier_rvalue,
                       IF operation \in {"UN_PREDEC", "UN_POSTDEC"}
                       THEN rvalue_negative_one ELSE rvalue_one,
                       "BIN_ADD">>).info
        stored == IF identifier_lvalue.kind = "STACK"
                  THEN emit("emit_store_of_rvalue", <<changed, identifier_rvalue, identifier_lvalue>>)
                  ELSE changed
    IN  IF post
        THEN [info |-> free_rvalue(stored, identifier_rvalue), rval |-> post_result_rvalue]
        ELSE [info |-> free_rvalue(stored, post_result_rvalue), rval |-> identifier_rvalue]

RECURSIVE emit_expression(_, _)

\* the $zero operand of the unary minus and of abs
rvalue_zero == rvalue("REGISTER", "int", TRUE, R_ZERO)

\* emit_unary_expression_rvalue
emit_unary_expression_rvalue(info, nd) ==
    LET operator == nd.op
        operand == emit("emit_expression", <<info, nd.kids[1]>>)
        operand_rvalue == operand.rval
        curr_label_num == operand.info.label_num
        label_else == label("L_ELSE", curr_label_num)
        label_end == label("L_END", curr_label_num)
        numbered == [operand.info EXCEPT !.label_num = @ + 1]
        got == get_register(numbered)
        result_rvalue == rvalue("REGISTER", "bool", FALSE, got.reg)
        lognot == to_io(
            emit_label_declaration(
                to_io(emit_label_declaration(
                          emit_unconditional_branch(
                              to_io(emit_label(to_io(got.info, <<Ins("bne"),
                                                                rvalue_to_io(operand_rvalue),
                                                                Reg(R_ZERO)>>), label_else),
                                    <<Ins("li"), rvalue_to_io(result_rvalue), Imm(1),
                                      Txt("\n")>>),
                              label_end),
                          label_else),
                      <<Ins("li"), rvalue_to_io(result_rvalue), Imm(0), Txt("\n")>>),
                label_end),
            <<Txt("\n")>>)
        abs == emit("emit_binary_operation", <<
                   emit_label(to_io(numbered, <<Txt("\n"), Ins("bgez"),
                                                rvalue_to_io(operand_rvalue)>>), label_else),
                   rvalue_zero, operand_rvalue, "BIN_SUB">>)
        operand_lvalue == emit_lvalue(info, nd.kids[1])
        address == get_register(info)
    IN  CASE operator \in {"UN_POSTINC", "UN_POSTDEC", "UN_PREINC", "UN_PREDEC"} ->
                 emit("emit_inc_dec_expression", <<info, nd>>)
          [] operator = "UN_MINUS" ->
                 emit("emit_binary_operation", <<operand.info, rvalue_zero, operand_rvalue, "BIN_SUB">>)
          [] operator = "UN_NOT" ->
                 emit("emit_binary_operation", <<operand.info, operand_rvalue, rvalue_negative_one,
                                       "BIN_XOR">>)
          [] operator = "UN_LOGNOT" -> [info |-> lognot, rval |-> result_rvalue]
          [] operator = "UN_ABS" ->
                 [info |-> emit_label_declaration(abs.info, label_end), rval |-> abs.rval]
          [] operator = "UN_ADDRESS" ->
                 [info |-> to_io(address.info,
                                 <<Txt("\n"), Ins("addi"), Reg(address.reg),
                                   Reg(operand_lvalue.base_reg), Imm(operand_lvalue.loc),
                                   Txt("\n")>>),
                  rval |-> rvalue("REGISTER", "int", FALSE, address.reg)]
          [] OTHER -> [info |-> info, rval |-> rvalue_void]

\* reverse_logic_command: the relation that holds when the given one does not
reverse_logic_command(operation) ==
    CASE operation = "BIN_LT" -> "BIN_GE"
      [] operation = "BIN_GT" -> "BIN_LE"
      [] operation = "BIN_LE" -> "BIN_GT"
      [] operation = "BIN_GE" -> "BIN_LT"
      [] operation = "BIN_EQ" -> "BIN_NE"
      [] OTHER -> "BIN_EQ"

\* emit_logic_expression
emit_logic_expression(info, nd) ==
    LET lhs == emit("emit_expression", <<info, nd.kids[1]>>)
        operation == reverse_logic_command(nd.op)
        rhs == emit("emit_expression", <<lhs.info, nd.kids[2]>>)
    IN  emit("emit_binary_operation", <<rhs.info, lhs.rval, rhs.rval, operation>>)

\* emit_integral_expression_rvalue
emit_integral_expression_rvalue(info, nd) ==
    LET lhs == emit("emit_expression", <<info, nd.kids[1]>>)
        rhs == emit("emit_expression", <<lhs.info, nd.kids[2]>>)
    IN  emit("emit_binary_operation", <<rhs.info, lhs.rval, rhs.rval, nd.op>>)

\* the operation of a compound assignment
correct_operation(operation) ==
    CASE operation = "BIN_ADD_ASSIGN" -> "BIN_ADD"
      [] operation = "BIN_SUB_ASSIGN" -> "BIN_SUB"
      [] operation = "BIN_MUL_ASSIGN" -> "BIN_MUL"
      [] operation = "BIN_DIV_ASSIGN" -> "BIN_DIV"
      [] operation = "BIN_SHL_ASSIGN" -> "BIN_SHL"
      [] operation = "BIN_SHR_ASSIGN" -> "BIN_SHR"
      [] operation = "BIN_AND_ASSIGN" -> "BIN_AND"
      [] operation = "BIN_XOR_ASSIGN" -> "BIN_XOR"
      [] OTHER -> "BIN_OR"

\* emit_assignment_expression
emit_assignment_expression(info, nd) ==
    LET operation == nd.op
        lhs_lvalue == emit_lvalue(info, nd.kids[1])
        rhs == emit("emit_expression", <<info, nd.kids[2]>>)
        lhs == emit("emit_load_of_lvalue", <<rhs.info, lhs_lvalue>>)
        computed == emit("emit_binary_operation", <<lhs.info, lhs.rval, rhs.rval,
                                          correct_operation(operation)>>)
        value == IF operation # "BIN_ASSIGN"
                 THEN [info |-> free_rvalue(computed.info, lhs.rval), rval |-> computed.rval]
                 ELSE rhs
    IN  [info |-> IF lhs_lvalue.kind = "STACK"
                  THEN emit("emit_store_of_rvalue", <<value.info, value.rval, lhs_lvalue>>)
                  ELSE value.info,
         rval |-> value.rval]

\* emit_binary_expression
emit_binary_expression(info, nd) ==
    LET operation == nd.op
        curr_label_num == info.label_num
        label_end == label("L_END", curr_label_num)
        lhs == emit("emit_expression", <<[info EXCEPT !.label_num = @ + 1], nd.kids[1]>>)
        result == IF lhs.rval.kind = "CONST" THEN emit("rvalue_to_register", <<lhs.info, lhs.rval>>)
                  ELSE lhs
        branch == emit_label(to_io(result.info,
                                   <<Ins(IF operation = "BIN_LOG_OR" THEN "bne" ELSE "beq"),
                                     rvalue_to_io(result.rval), Reg(R_ZERO)>>), label_end)
        rhs == emit("emit_expression", <<branch, nd.kids[2]>>)
    IN  CASE operation \in {"BIN_MUL", "BIN_DIV", "BIN_REM", "BIN_ADD", "BIN_SUB", "BIN_SHL",
                            "BIN_SHR", "BIN_AND", "BIN_XOR", "BIN_OR"} ->
                 emit("emit_integral_expression_rvalue", <<info, nd>>)
          [] is_comparison(operation) -> emit("emit_logic_expression", <<info, nd>>)
          [] operation \in {"BIN_LOG_OR", "BIN_LOG_AND"} ->
                 [info |-> emit_label_declaration(
                               free_rvalue(emit("emit_store_rvalue_to_rvalue", <<rhs.info, result.rval,
                                                                       rhs.rval>>),
                                           rhs.rval),
                               label_end),
                  rval |-> result.rval]
          [] OTHER -> [info |-> info, rval |-> rvalue_void]

\* emit_ternary_expression
emit_ternary_expression(info, nd) ==
    LET curr_label_num == info.label_num
        old_label_else == info.label_else
        label_else == label("L_ELSE", curr_label_num)
        label_end == label("L_END", curr_label_num)
        condition == emit("emit_expression", <<
                         to_io([info EXCEPT !.label_num = @ + 1],
                               <<Txt("\n"), Txt("# ternary expression:\n")>>),
                         nd.kids[1]>>)
        branch == free_rvalue(
                      emit_label(to_io(condition.info,
                                       <<Txt("\n"), Ins("beq"), rvalue_to_io(condition.rval),
                                         Reg(R_ZERO)>>), label_else),
                      condition.rval)
        got == emit("get_register_of", <<branch, nd.type>>)
        result_rvalue == rvalue("REGISTER", nd.type, FALSE, got.reg)
        lhs == emit("emit_expression", <<got.info, nd.kids[2]>>)
        then == free_rvalue(emit("emit_store_rvalue_to_rvalue", <<lhs.info, result_rvalue, lhs.rval>>),
                            lhs.rval)
        middle == emit_label_declaration(
                      emit_unconditional_branch([then EXCEPT !.label_else = old_label_else],
                                                label_end),
                      label_else)
        rhs == emit("emit_expression", <<middle, nd.kids[3]>>)
        else == free_rvalue(emit("emit_store_rvalue_to_rvalue", <<rhs.info, result_rvalue, rhs.rval>>),
                            rhs.rval)
    IN  [info |-> to_io(emit_label_declaration(else, label_end), <<Txt("\n")>>),
         rval |-> result_rvalue]

\* to_code_2R
to_code_2R(info, instruction, fst_reg, snd_reg) ==
    to_io(info, <<Ins(instruction), Reg(fst_reg), Reg(snd_reg), Txt("\n")>>)

\* to_code_2R_I
to_code_2R_I(info, instruction, fst_reg, snd_reg, imm) ==
    to_io(info, <<Ins(instruction), Reg(fst_reg), Reg(snd_reg), Imm(imm), Txt("\n")>>)

\* to_code_R_I_R
to_code_R_I_R(info, instruction, fst_reg, imm, snd_reg) ==
    to_io(info, <<Ins(instruction), Reg(fst_reg), Imm(imm), Reg(snd_reg), Txt("\n")>>)

\* to_code_R
to_code_R(info, instruction, reg) == to_io(info, <<Ins(instruction), Reg(reg), Txt("\n")>>)

RECURSIVE call_arguments(_, _, _, _, _, _)

\* the loop over the arguments of emit_call_expression, from the argument i
\* on: the argument register is saved at i words above $fp and takes the
\* value of the argument
call_arguments(info, nd, i, arg_count, f_arg_count, prev_arg_displ) ==
    IF i >= Len(nd.kids) \/ info.failed
    THEN [info |-> info, prev_arg_displ |-> prev_arg_displ]
    ELSE LET arg == emit("emit_expression", <<info, nd.kids[i + 1]>>)
             arg_rvalue == arg.rval
             floating == type_is_floating(arg_rvalue.type)
             in_register == (IF floating THEN f_arg_count ELSE arg_count) < ARG_REG_AMOUNT
             arg_reg == IF floating THEN R_FA0 + f_arg_count ELSE R_A0 + arg_count
             tmp == rvalue("REGISTER", arg_rvalue.type, FALSE, arg_reg)
             tmp_arg_lvalue == lvalue("STACK", R_FP, i * WORD_LENGTH, arg_rvalue.type)
             commented == to_io(arg.info,
                                IF in_register
                                THEN <<Txt("# saving "), Reg(arg_reg), Txt(" value on stack:\n")>>
                                ELSE <<Txt("# parameter on stack:\n")>>)
             stored == emit("emit_store_of_rvalue",
                            <<commented, IF in_register THEN tmp ELSE arg_rvalue,
                              tmp_arg_lvalue>>)
             passed == IF in_register
                       THEN emit("emit_store_rvalue_to_rvalue", <<stored, tmp, arg_rvalue>>)
                       ELSE stored
         IN  call_arguments(free_rvalue(passed, arg_rvalue), nd, i + 1,
                            IF floating THEN arg_count ELSE arg_count + 1,
                            IF floating THEN f_arg_count + 2 ELSE f_arg_count,
                            IF in_register THEN Append(prev_arg_displ, tmp_arg_lvalue)
                            ELSE prev_arg_displ)

RECURSIVE call_restoring(_, _, _, _)

\* the loop of emit_call_expression that loads the argument registers again
call_restoring(info, prev_arg_displ, i, j) ==
    IF i + j >= Len(prev_arg_displ) \/ info.failed THEN info
    ELSE LET floating == type_is_floating(prev_arg_displ[i + j + 1].type)
             tmp_rval == emit("emit_load_of_lvalue",
                              <<to_io(info, <<Txt("\n")>>), prev_arg_displ[i + j + 1]>>)
             loaded == emit("emit_store_rvalue_to_rvalue",
                            <<tmp_rval.info,
                              rvalue("REGISTER", "int", TRUE,
                                     IF floating THEN R_FA0 + 2 * j ELSE R_A0 + i),
                              tmp_rval.rval>>)
         IN  call_restoring(free_rvalue(loaded, tmp_rval.rval), prev_arg_displ,
                            IF floating THEN i ELSE i + 1, IF floating THEN j + 1 ELSE j)

\* emit_call_expression for a user function: the callee is nd.n, the
\* arguments are the children. displ_for_parameters is a size_t: the value
\* below zero stands for the value that wrapped around, which is not zero and
\* is the same number again as an item_t
emit_call_expression(info, nd) ==
    LET func_ref == nd.n
        params_amount == Len(nd.kids)
        return_type == nd.type
        displ_for_parameters == (params_amount - 1) * WORD_LENGTH
        called == to_io(info, <<Txt("# function call:\n"), Txt("# setting up $fp:\n")>>)
        fp == IF displ_for_parameters # 0
              THEN to_code_2R_I(called, "addi", R_FP, R_FP, -displ_for_parameters)
              ELSE called
        passing == call_arguments(to_io(fp, <<Txt("\n"), Txt("# parameters passing:\n")>>),
                                  nd, 0, 0, 0, <<>>)
        jal == to_io(passing.info, <<Txt("\n"), Ins("jal"), Lbl(label("L_FUNC", func_ref)),
                                     Txt("\n"), Txt("\n"), Txt("# data restoring:\n")>>)
        restored == call_restoring(jal, passing.prev_arg_displ, 0, 0)
        back == IF displ_for_parameters # 0
                THEN to_code_2R_I(restored, "addi", R_FP, R_FP, displ_for_parameters)
                ELSE restored
    IN  [info |-> to_io(back, <<Txt("\n")>>),
         rval |-> rvalue("REGISTER", return_type, FALSE,
                         IF type_is_floating(return_type) THEN R_FV0 ELSE R_V0)]

\* emit_expression
emit_expression(info, nd) ==
    IF expression_is_lvalue(nd)
    THEN emit("emit_load_of_lvalue", <<info, emit_lvalue(info, nd)>>)
    ELSE CASE expression_get_class(nd) = "EXPR_LITERAL" ->
                  [info |-> info, rval |-> emit_literal_expression(nd)]
           [] expression_get_class(nd) = "EXPR_UNARY" -> emit("emit_unary_expression_rvalue", <<info, nd>>)
           [] expression_get_class(nd) = "EXPR_BINARY" -> emit("emit_binary_expression", <<info, nd>>)
           [] expression_get_class(nd) = "EXPR_ASSIGNMENT" ->
                  emit("emit_assignment_expression", <<info, nd>>)
           [] expression_get_class(nd) = "EXPR_TERNARY" -> emit("emit_ternary_expression", <<info, nd>>)
           [] expression_get_class(nd) = "EXPR_CALL" -> emit("emit_call_expression", <<info, nd>>)
           [] OTHER -> [info |-> info, rval |-> rvalue_void]

\* emit_void_expression
emit_void_expression(info, nd) ==
    IF expression_is_lvalue(nd)
    THEN info
    ELSE LET result == emit("emit_expression", <<info, nd>>)
         IN  free_rvalue(result.info, result.rval)

\* emit_boolean_expression
emit_boolean_expression(info, nd) ==
    LET value == emit("emit_expression", <<info, nd>>)
        got == get_register(value.info)
    IN  IF ~type_is_floating(value.rval.type) THEN value
        ELSE IF value.rval.kind = "CONST"
        THEN [info |-> value.info,
              rval |-> rvalue("CONST", "int", FALSE, IF value.rval.val # 0 THEN 1 ELSE 0)]
        ELSE [info |-> free_rvalue(
                           to_code_2R(to_code_2R(got.info, "cvt.w.s", value.rval.val,
                                                 value.rval.val),
                                      "mfc1", value.rval.val, got.reg),
                           value.rval),
              rval |-> rvalue("REGISTER", "int", FALSE, got.reg)]

\* ------------------------------------------------------------------------
\* Declarations and statements
\* ------------------------------------------------------------------------

\* emit_array_declaration for a variable without bounds and initializer:
\* the address of the beginning is saved and $fp is moved
emit_array_declaration(info, nd) ==
    LET arr_displ == displacements_get(info, nd.n).loc
        saved == emit("emit_store_of_rvalue", <<info, rvalue("REGISTER", "int", FALSE, R_FP),
                                      lvalue("STACK", R_SP, arr_displ, "array")>>)
    IN  to_io(to_code_2R_I(to_io(saved, <<Txt("\n"), Txt("# setting up $fp:\n")>>),
                           "addi", R_FP, R_FP, -WORD_LENGTH),
              <<Txt("\n")>>)

type_is_array(type) == type = "array"

\* emit_variable_declaration: what is not an array takes the array path
emit_variable_declaration(info, nd) ==
    LET variable == displacements_add(info, nd.n)
        value == emit("emit_expression", <<variable.info, nd.kids[1]>>)
    IN  IF type_is_array(ident_get_type(nd.n))
        THEN IF nd.kids # <<>>
             THEN free_rvalue(emit("emit_store_of_rvalue", <<value.info, value.rval, variable.lval>>),
                              value.rval)
             ELSE variable.info
        ELSE emit("emit_array_declaration", <<variable.info, nd>>)

\* emit_declaration for the declaration of a variable
emit_declaration(info, nd) ==
    IF nd.class = "DECL_VAR"
    THEN to_io(emit("emit_variable_declaration", <<info, nd>>), <<Txt("\n")>>)
    ELSE info

RECURSIVE emit_declaration_statement(_, _, _)

\* emit_declaration_statement, from the i-th declarator on
emit_declaration_statement(info, nd, i) ==
    IF i > Len(nd.kids) THEN info
    ELSE emit_declaration_statement(emit("emit_declaration", <<info, nd.kids[i]>>), nd, i + 1)

RECURSIVE emit_statement(_, _)

RECURSIVE emit_substatements(_, _, _)

\* the loop of emit_compound_statement, from the i-th substatement on
emit_substatements(info, nd, i) ==
    IF i > Len(nd.kids) THEN info
    ELSE emit_substatements(emit("emit_statement", <<info, nd.kids[i]>>), nd, i + 1)

\* emit_compound_statement
emit_compound_statement(info, nd) ==
    LET scope_displacement == info.displ
    IN  [emit("emit_substatements", <<info, nd, 1>>) EXCEPT !.displ = scope_displacement]

\* emit_if_statement
emit_if_statement(info, nd) ==
    LET value == emit("emit_boolean_expression", <<info, nd.kids[1]>>)
        label_num == value.info.label_num
        label_else == label("L_ELSE", label_num)
        label_end == label("L_END", label_num)
        has_else == Len(nd.kids) = 3
        then == emit("emit_statement", <<
                    emit_conditional_branch([value.info EXCEPT !.label_num = @ + 1],
                                            value.rval,
                                            IF has_else THEN label_else ELSE label_end),
                    nd.kids[2]>>)
        else == IF has_else
                THEN emit("emit_statement", <<
                         emit_label_declaration(emit_unconditional_branch(then, label_end),
                                                label_else),
                         nd.kids[3]>>)
                ELSE then
    IN  emit_label_declaration(else, label_end)

\* variant: the labels stay those of the loop
restore_labels_kept(info, old) == info

\* the loop statements leave the labels of continue and break as they were
restore_labels(info, old) ==
    [info EXCEPT !.label_continue = old.label_continue, !.label_break = old.label_break]

\* emit_while_statement
emit_while_statement(info, nd) ==
    LET label_num == info.label_num
        label_begin == label("L_BEGIN_CYCLE", label_num)
        label_end == label("L_END", label_num)
        value == emit("emit_boolean_expression", <<
                     emit_label_declaration(
                         [info EXCEPT !.label_num = @ + 1, !.label_continue = label_begin,
                                      !.label_break = label_end],
                         label_begin),
                     nd.kids[1]>>)
        body == emit("emit_statement", <<emit_conditional_branch(value.info, value.rval, label_end),
                               nd.kids[2]>>)
    IN  restore_labels(emit_label_declaration(emit_unconditional_branch(body, label_begin),
                                              label_end), info)

\* emit_do_statement
emit_do_statement(info, nd) ==
    LET label_num == info.label_num
        label_begin == label("L_BEGIN_CYCLE", label_num)
        label_condition == label("L_NEXT", label_num)
        label_end == label("L_END", label_num)
        body == emit("emit_statement", <<
                    [emit_label_declaration([info EXCEPT !.label_num = @ + 1], label_begin)
                         EXCEPT !.label_continue = label_condition, !.label_break = label_end],
                    nd.kids[1]>>)
        value == emit("emit_boolean_expression", <<emit_label_declaration(body, label_condition),
                                         nd.kids[2]>>)
    IN  restore_labels(
            emit_label_declaration(emit_conditional_branch(value.info, value.rval, label_begin),
                                   label_end), info)

\* the parts of a for statement that may be absent
statement_for_has(part) == part.class # "NONE"

\* emit_for_statement
emit_for_statement(info, nd) ==
    LET scope_displacement == info.displ
        inition == IF statement_for_has(nd.kids[1]) THEN emit("emit_statement", <<info, nd.kids[1]>>)
                   ELSE info
        label_num == inition.label_num
        label_begin == label("L_BEGIN_CYCLE", label_num)
        label_end == label("L_END", label_num)
        begun == emit_label_declaration(
                     [inition EXCEPT !.label_num = @ + 1, !.label_continue = label_begin,
                                     !.label_break = label_end],
                     label_begin)
        value == emit("emit_boolean_expression", <<begun, nd.kids[2]>>)
        condition == IF statement_for_has(nd.kids[2])
                     THEN emit_conditional_branch(value.info, value.rval, label_end)
                     ELSE begun
        body == emit("emit_statement", <<condition, nd.kids[4]>>)
        increment == IF statement_for_has(nd.kids[3])
                     THEN emit("emit_void_expression", <<body, nd.kids[3]>>)
                     ELSE body
    IN  [restore_labels(
             emit_label_declaration(emit_unconditional_branch(increment, label_begin),
                                    label_end), inition)
         EXCEPT !.displ = scope_displacement]

\* emit_continue_statement
emit_continue_statement(info) == emit_unconditional_branch(info, info.label_continue)

\* emit_break_statement
emit_break_statement(info) == emit_unconditional_branch(info, info.label_break)

\* emit_return_statement
emit_return_statement(info, nd) ==
    LET value == emit("emit_expression", <<info, nd.kids[1]>>)
        return_lval == lvalue("REGISTER", 0, R_V0, nd.type)
        returned == IF nd.kids # <<>>
                    THEN free_rvalue(emit("emit_store_of_rvalue", <<value.info, value.rval, return_lval>>),
                                     value.rval)
                    ELSE info
    IN  emit_unconditional_branch(returned, label("L_FUNCEND", returned.curr_function_ident))

\* emit_statement
emit_statement(info, nd) ==
    LET class == statement_get_class(nd)
        emitted ==
            CASE class = "STMT_DECL" -> emit("emit_declaration_statement", <<info, nd, 1>>)
              [] class = "STMT_COMPOUND" -> emit("emit_compound_statement", <<info, nd>>)
              [] class = "STMT_EXPR" -> emit("emit_void_expression", <<info, nd>>)
              [] class = "STMT_IF" -> emit("emit_if_statement", <<info, nd>>)
              [] class = "STMT_WHILE" -> emit("emit_while_statement", <<info, nd>>)
              [] class = "STMT_DO" -> emit("emit_do_statement", <<info, nd>>)
              [] class = "STMT_FOR" -> emit("emit_for_statement", <<info, nd>>)
              [] class = "STMT_CONTINUE" -> emit_continue_statement(info)
              [] class = "STMT_BREAK" -> emit_break_statement(info)
              [] class = "STMT_RETURN" -> emit("emit_return_statement", <<info, nd>>)
              [] OTHER -> info
    IN  to_io(emitted, <<Txt("\n")>>)

\* ------------------------------------------------------------------------
\* Functions and the translation unit
\* ------------------------------------------------------------------------
RECURSIVE to_code_registers_low(_, _, _, _, _, _, _)

\* variant: the loads of the loops do not count what lies before the registers
to_code_registers_low(info, instruction, reg, stride, amount, displ, i) ==
    IF i >= amount THEN info
    ELSE to_code_registers_low(
             to_code_R_I_R(info, instruction, reg + stride * i,
                           -((IF instruction = "lw" THEN 0 ELSE displ) + (i + 1) * WORD_LENGTH),
                           R_FP),
             instruction, reg, stride, amount, displ, i + 1)

RECURSIVE to_code_registers(_, _, _, _, _, _, _)

\* the loops of the prologue and the epilogue: amount registers from reg on,
\* stride apart, each at a word below -(displ) from $fp
to_code_registers(info, instruction, reg, stride, amount, displ, i) ==
    IF i >= amount THEN info
    ELSE to_code_registers(
             to_code_R_I_R(info, instruction, reg + stride * i,
                           -(displ + (i + 1) * WORD_LENGTH), R_FP),
             instruction, reg, stride, amount, displ, i + 1)

\* emit_function_definition up to the body: the label of the function and the
\* preserved registers, written to the io of the unit
function_definition_begin(info, nd) ==
    LET ref_ident == nd.n
        func == to_io(emit_label_declaration(info, label("L_FUNC", ref_ident)),
                      <<Txt("# function:\n")>>)
        entered == [func EXCEPT !.curr_function_ident = ref_ident, !.max_displ = 0]
        ra == to_code_R_I_R(to_io(entered, <<Txt("\n"), Txt("# preserved registers:\n")>>),
                            "sw", R_RA, -RA_SIZE, R_FP)
        sp == to_code_R_I_R(ra, "sw", R_SP, -(RA_SIZE + SP_SIZE), R_FP)
        saved == to_code_registers(sp, "sw", R_S0, 1, PRESERVED_REG_AMOUNT,
                                   RA_SIZE + SP_SIZE, 0)
        fsaved == to_code_registers(to_io(saved, <<Txt("\n")>>), "s.s", R_FS0, 2,
                                    PRESERVED_FP_REG_AMOUNT \div 2,
                                    RA_SIZE + SP_SIZE + PRESERVED_REG_AMOUNT * WORD_LENGTH, 0)
        asaved == to_code_registers(fsaved, "sw", R_A0, 1, ARG_REG_AMOUNT,
                                    RA_SIZE + SP_SIZE + PRESERVED_REG_AMOUNT * WORD_LENGTH
                                        + (PRESERVED_FP_REG_AMOUNT \div 2) * WORD_LENGTH, 0)
        padding == 8 - (asaved.max_displ % 8)
    IN  IF asaved.max_displ % 8 # 0
        THEN to_io([asaved EXCEPT !.max_displ = @ + padding], <<Txt("\n"), Txt("# padding\n")>>)
        ELSE asaved

\* the parameters of a function follow its body in the node
declaration_function_get_parameter(nd, i) == nd.kids[i + 2].n

type_function_get_parameter_amount(nd) == Len(nd.kids) - 1

RECURSIVE function_parameters(_, _, _, _, _)

\* the loop over the parameters of emit_function_definition, from the
\* parameter i on: the record of a parameter has two values
function_parameters(info, nd, i, gpr_count, fp_count) ==
    IF i >= type_function_get_parameter_amount(nd) \/ info.failed THEN info
    ELSE LET id == declaration_function_get_parameter(nd, i)
             floating == type_is_floating(ident_get_type(id))
             fits == IF floating THEN i < ARG_REG_AMOUNT \div 2 ELSE i < ARG_REG_AMOUNT
             curr_reg == IF floating THEN R_FA0 + 2 * fp_count ELSE R_A0 + gpr_count
             named == to_io(info, <<Txt("# parameter ")>>)
         IN  IF fits
             THEN function_parameters(
                      [to_io(named, <<Txt("is in register "), Reg(curr_reg), Txt("\n")>>)
                           EXCEPT !.displacements =
                                      hash_set(@, id, <<item_of(~IS_ON_STACK), curr_reg>>)],
                      nd, i + 1,
                      IF floating THEN gpr_count ELSE gpr_count + 1,
                      IF floating THEN fp_count + 1 ELSE fp_count)
             ELSE [named EXCEPT !.failed = TRUE]

\* the buffer for the body of the function is a new io; the parameters are
\* entered into the table
function_body_begin(info, nd) ==
    to_io(function_parameters([info EXCEPT !.io = <<Txt("\n"), Txt("# function parameters:\n")>>],
                              nd, 0, 0, 0),
          <<Txt("\n"), Txt("# function body:\n")>>)

\* emit_function_definition after the statements of the body: the buffer is
\* put into the old io after the set up of $fp and $sp, then the end label
\* and the restoring of the registers
function_definition_end(info, old_io, nd) ==
    LET ref_ident == nd.n
        buffer == info.io
        fp == to_code_2R_I([info EXCEPT !.io = old_io \o <<Txt("\n"),
                                                           Txt("# setting up $fp:\n")>>],
                           "addi", R_FP, R_FP,
                           -(info.max_displ + FUNC_DISPL_PRESEREVED + WORD_LENGTH))
        sp == to_code_2R(to_io(fp, <<Txt("\n"), Txt("# setting up $sp:\n")>>),
                         "move", R_SP, R_FP)
        body == to_io(to_code_2R_I(sp, "addi", R_FP, R_FP, -WORD_LENGTH), buffer)
        end_label == label("L_END", ref_ident)
        restoring == to_code_2R_I(
                         to_io(emit_label_declaration(body, end_label),
                               <<Txt("\n"), Txt("# data restoring:\n")>>),
                         "addi", R_FP, R_SP,
                         info.max_displ + FUNC_DISPL_PRESEREVED + WORD_LENGTH)
        restored == to_code_registers(to_io(restoring, <<Txt("\n")>>), "lw", R_S0, 1,
                                      PRESERVED_REG_AMOUNT, RA_SIZE + SP_SIZE, 0)
        frestored == to_code_registers(to_io(restored, <<Txt("\n")>>), "l.s", R_FS0, 2,
                                       PRESERVED_FP_REG_AMOUNT \div 2,
                                       RA_SIZE + SP_SIZE + 8 * WORD_LENGTH, 0)
        arestored == to_code_registers(frestored, "lw", R_A0, 1, ARG_REG_AMOUNT,
                                       RA_SIZE + SP_SIZE + 8 * WORD_LENGTH + 5 * WORD_LENGTH,
                                       0)
        spback == to_code_R_I_R(to_io(arestored, <<Txt("\n")>>), "lw", R_SP,
                                -(RA_SIZE + SP_SIZE), R_FP)
    IN  to_code_R(to_code_R_I_R(spback, "lw", R_RA, -RA_SIZE, R_FP), "jr", R_RA)

\* pregen: the directives, the label main and the set up of $gp, $fp
pregen(info) ==
    LET directives == to_io(info, <<Txt(".text\n"), Txt(".align 2\n"), Txt("\n"),
                                    Txt(".globl main\n"), Txt("main:\n"),
                                    Txt("lui $gp\n"), Txt("addiu $gp\n")>>)
        fp == to_code_2R_I(to_code_2R(directives, "move", R_FP, R_SP), "addi", R_FP, R_FP, -4)
        ra == to_code_R_I_R(fp, "sw", R_RA, 0, R_FP)
        border == to_io(ra, <<Ins("li"), Reg(R_T0), Imm(LOW_DYN_BORDER), Txt("\n")>>)
    IN  to_io(to_code_R_I_R(border, "sw", R_T0, -HEAP_DISPL - 60, R_GP), <<Txt("\n")>>)

\* string[j]: string_get gives the address of the characters, the zero byte
\* and what lies behind it in the memory
string_at(string, j) == IF j < Len(string) THEN string[j + 1] ELSE NUL

RECURSIVE string_ascii(_, _, _, _, _, _)

\* the loop over the characters of the string i from string[j] on
string_ascii(info, string, i, amount, j, args_for_printf) ==
    LET ch == string_at(string, j)
        another_str_label == label("L_STRING", i + (args_for_printf + 1) * amount)
    IN  IF ch = NUL THEN info
        ELSE IF ch = "\n"
        THEN string_ascii(to_io(info, <<Txt("\\n")>>), string, i, amount, j + 1,
                          args_for_printf)
        ELSE IF ch = "%"
        THEN string_ascii(
                 to_io(emit_label(to_io(info, <<Txt(ch), Txt(string_at(string, j + 1)),
                                                Txt("\\0\"\n")>>),
                                  another_str_label),
                       <<Txt("\t.ascii \"")>>),
                 string, i, amount, j + 2, args_for_printf + 1)
        ELSE string_ascii(to_io(info, <<Txt(ch)>>), string, i, amount, j + 1,
                          args_for_printf)

RECURSIVE strings_labels(_, _, _)

\* the loop over the strings from the string i on
strings_labels(info, strings, i) ==
    IF i >= Len(strings) THEN info
    ELSE strings_labels(
             to_io(string_ascii(to_io(emit_label(info, label("L_STRING", i)),
                                      <<Txt("\t.ascii \"")>>),
                                strings[i + 1], i, Len(strings), 0, 0),
                   <<Txt("\\0\"\n")>>),
             strings, i + 1)

\* strings_declaration
strings_declaration(info, strings) ==
    to_io(strings_labels(to_io(info, <<Txt(".rdata\n"), Txt(".align 2\n")>>), strings, 0),
          <<Txt(".text\n"), Txt(".align 2\n"), Txt("\n")>>)

\* postgen: the call of the main function (ref_main) and the return
postgen(info, ref_main) ==
    to_code_R(to_code_R_I_R(to_io(info, <<Txt("\n"), Ins("jal"),
                                          Lbl(label("L_FUNC", ref_main)), Txt("\n")>>),
                            "lw", R_RA, 0, R_FP),
              "jr", R_RA)

\* the operators of the code generator by name
emit(f, a) ==
    CASE f = "get_register_of" -> get_register_of(a[1], a[2])
      [] f = "emit_load_of_lvalue" -> emit_load_of_lvalue(a[1], a[2])
      [] f = "emit_store_rvalue_to_rvalue" -> emit_store_rvalue_to_rvalue(a[1], a[2], a[3])
      [] f = "emit_store_of_rvalue" -> emit_store_of_rvalue(a[1], a[2], a[3])
      [] f = "comparison_to_io" -> comparison_to_io(a[1], a[2], a[3], a[4], a[5], a[6])
      [] f = "binary_operation_registers" -> binary_operation_registers(a[1], a[2], a[3], a[4])
      [] f = "binary_operation_constant" -> binary_operation_constant(a[1], a[2], a[3], a[4])
      [] f = "emit_binary_operation" -> emit_binary_operation(a[1], a[2], a[3], a[4])
      [] f = "emit_inc_dec_expression" -> emit_inc_dec_expression(a[1], a[2])
      [] f = "emit_unary_expression_rvalue" -> emit_unary_expression_rvalue(a[1], a[2])
      [] f = "emit_assignment_expression" -> emit_assignment_expression(a[1], a[2])
      [] f = "emit_binary_expression" -> emit_binary_expression(a[1], a[2])
      [] f = "emit_ternary_expression" -> emit_ternary_expression(a[1], a[2])
      [] f = "emit_expression" -> emit_expression(a[1], a[2])
      [] f = "emit_void_expression" -> emit_void_expression(a[1], a[2])
      [] f = "emit_boolean_expression" -> emit_boolean_expression(a[1], a[2])
      [] f = "emit_variable_declaration" -> emit_variable_declaration(a[1], a[2])
      [] f = "emit_if_statement" -> emit_if_statement(a[1], a[2])
      [] f = "emit_while_statement" -> emit_while_statement(a[1], a[2])
      [] f = "emit_do_statement" -> emit_do_statement(a[1], a[2])
      [] f = "emit_for_statement" -> emit_for_statement(a[1], a[2])
      [] f = "emit_return_statement" -> emit_return_statement(a[1], a[2])
      [] f = "emit_statement" -> emit_statement(a[1], a[2])
      [] f = "function_definition_begin" -> function_definition_begin(a[1], a[2])
      [] f = "function_definition_end" -> function_definition_end(a[1], a[2], a[3])
      [] f = "pregen" -> pregen(a[1])
      [] f = "rvalue_to_register" -> rvalue_to_register(a[1], a[2])
      [] f = "emit_logic_expression" -> emit_logic_expression(a[1], a[2])
      [] f = "emit_integral_expression_rvalue" -> emit_integral_expression_rvalue(a[1], a[2])
      [] f = "emit_array_declaration" -> emit_array_declaration(a[1], a[2])
      [] f = "emit_declaration" -> emit_declaration(a[1], a[2])
      [] f = "emit_declaration_statement" -> emit_declaration_statement(a[1], a[2], a[3])
      [] f = "emit_substatements" -> emit_substatements(a[1], a[2], a[3])
      [] f = "emit_compound_statement" -> emit_compound_statement(a[1], a[2])
      [] f = "emit_call_expression" -> emit_call_expression(a[1], a[2])

\* ------------------------------------------------------------------------
\* The code generator as a state machine: encode_to_mips
\* ------------------------------------------------------------------------
pre == <<prs, frames, pc, lc>>

vars == <<prs, frames, pc, lc, enc, tu, gpc, unit_io>>

MaxFunction == 2

MaxBody == 1

\* the integer variable of the units
IdentX == 10

expr_x == node("EXPR_IDENTIFIER", "", IdentX, "int", <<>>)

literal(n) == node("EXPR_LITERAL", "", n, "int", <<>>)

unary(op, e) == node("EXPR_UNARY", op, 0, "int", <<e>>)

binary(op, l, r) == node("EXPR_BINARY", op, 0, "int", <<l, r>>)

assignment(op, l, r) == node("EXPR_ASSIGNMENT", op, 0, "int", <<l, r>>)

statement(class, kids) == node(class, "", 0, "void", kids)

stmt_null == statement("STMT_NULL", <<>>)

none == statement("NONE", <<>>)

\* int x;
decl_x == statement("STMT_DECL", <<node("DECL_VAR", "", IdentX, "int", <<>>)>>)

\* the expressions of the units
Expressions ==
    { assignment("BIN_ASSIGN", expr_x, literal(1)),
      assignment("BIN_ASSIGN", expr_x, expr_x),
      assignment("BIN_ADD_ASSIGN", expr_x, expr_x),
      unary("UN_POSTINC", expr_x),
      unary("UN_PREDEC", expr_x),
      unary("UN_LOGNOT", expr_x),
      unary("UN_MINUS", expr_x),
      unary("UN_ABS", expr_x),
      binary("BIN_LT", expr_x, literal(1)),
      binary("BIN_EQ", expr_x, expr_x),
      binary("BIN_ADD", expr_x, expr_x),
      binary("BIN_ADD", expr_x, literal(1)),
      binary("BIN_SUB", expr_x, literal(1)),
      binary("BIN_LOG_AND", expr_x, expr_x),
      node("EXPR_TERNARY", "", 0, "int", <<expr_x, literal(1), expr_x>>),
      expr_x }

\* the statements of the units
Statements ==
    Expressions \cup
    { stmt_null,
      statement("STMT_IF", <<expr_x, stmt_null>>),
      statement("STMT_IF", <<binary("BIN_LT", expr_x, literal(1)), stmt_null, stmt_null>>),
      statement("STMT_IF", <<literal(0), stmt_null>>),
      statement("STMT_WHILE", <<expr_x, statement("STMT_BREAK", <<>>)>>),
      statement("STMT_WHILE", <<unary("UN_LOGNOT", expr_x), stmt_null>>),
      statement("STMT_DO", <<statement("STMT_CONTINUE", <<>>), expr_x>>),
      statement("STMT_FOR", <<none, none, none, statement("STMT_BREAK", <<>>)>>),
      statement("STMT_FOR", <<assignment("BIN_ASSIGN", expr_x, expr_x), expr_x,
                              binary("BIN_ADD", expr_x, expr_x), stmt_null>>),
      statement("STMT_RETURN", <<>>),
      statement("STMT_RETURN", <<expr_x>>),
      statement("STMT_RETURN", <<literal(1)>>),
      statement("STMT_COMPOUND", <<statement("STMT_IF", <<expr_x, stmt_null>>),
                                   statement("STMT_IF", <<expr_x, stmt_null>>)>>) }

RECURSIVE StatementLists(_)

\* the lists of at most n statements
StatementLists(n) ==
    IF n = 0 THEN {<<>>}
    ELSE LET shorter == StatementLists(n - 1)
         IN  shorter \cup {Append(b, s) : b \in shorter, s \in Statements}

\* the bodies: the declaration of x and at most MaxBody statements
Bodies == { <<decl_x>> \o b : b \in StatementLists(MaxBody) }

function(ref_ident, body) ==
    node("DECL_FUNC", "", ref_ident, "func", <<statement("STMT_COMPOUND", body)>>)

\* the translation units: one function, or two functions of one statement
Units ==
    { <<function(f, b)>> : f \in 1..MaxFunction, b \in Bodies } \cup
    { <<function(1, <<decl_x, s>>), function(f, <<decl_x, s>>)>> :
          f \in 2..MaxFunction,
          s \in { statement("STMT_IF", <<expr_x, stmt_null>>),
                  statement("STMT_RETURN", <<expr_x>>) } }

\* the busy array with the registers of the set busy
busy(set) == [i \in 0..(TEMP_FP_REG_AMOUNT + TEMP_REG_AMOUNT + 4 - 1) |-> i \in set]

\* encode_to_mips leaves these fields of the structure as they are on the stack
Uninitialised ==
    { [registers |-> busy({}), lbl |-> label("L_FUNC", 0), n |-> 0],
      [registers |-> busy({0}), lbl |-> label("L_END", 0), n |-> 4],
      [registers |-> busy(0..(TEMP_REG_AMOUNT - 1)), lbl |-> label("L_NEXT", 1), n |-> 8] }

\* the information structure of encode_to_mips before pregen
information(garbage) ==
    [registers |-> garbage.registers,
     label_num |-> 1,
     label_else |-> garbage.lbl,
     label_continue |-> garbage.lbl,
     label_break |-> garbage.lbl,
     curr_function_ident |-> garbage.n,
     max_displ |-> garbage.n,
     displ |-> garbage.n,
     displacements |-> <<>>,
     io |-> <<>>,
     failed |-> FALSE]

\* the position in encode_to_mips
place(at, decl, stmt) == [at |-> at, decl |-> decl, stmt |-> stmt]

\* the preprocessor is not running
PreIdle ==
    /\ prs = parser_create(<<>>, <<>>)
    /\ frames = <<>>
    /\ pc = "done"
    /\ lc = Locals(1)

\* the code generator is not running
GenIdle ==
    /\ enc = information(CHOOSE g \in Uninitialised : g.n = 0)
    /\ tu = <<>>
    /\ gpc = place("done", 1, 1)
    /\ unit_io = <<>>

InitGen ==
    /\ PreIdle
    /\ \E garbage \in Uninitialised : enc = information(garbage)
    /\ tu \in Units
    /\ gpc = place("start", 1, 1)
    /\ unit_io = <<>>

\* the body of the function whose definition is being emitted
function_body == tu[gpc.decl].kids[1]

\* encode_to_mips up to emit_translation_unit
Pregen ==
    /\ gpc.at = "start"
    /\ enc' = strings_declaration(emit("pregen", <<enc>>), <<>>)
    /\ gpc' = place("unit", 1, 1)
    /\ UNCHANGED <<pre, tu, unit_io>>

\* emit_function_definition up to the first statement of the body
EmitFunctionDefinition ==
    /\ gpc.at = "unit"
    /\ ~enc.failed
    /\ gpc.decl <= Len(tu)
    /\ LET begun == emit("function_definition_begin", <<enc, tu[gpc.decl]>>)
       IN  /\ unit_io' = begun.io
           /\ enc' = function_body_begin(begun, tu[gpc.decl])
    /\ gpc' = place("body", gpc.decl, 1)
    /\ UNCHANGED <<pre, tu>>

\* emit_statement of one statement of the body
EmitStatement ==
    /\ gpc.at = "body"
    /\ ~enc.failed
    /\ gpc.stmt <= Len(function_body.kids)
    /\ enc' = emit("emit_statement", <<enc, function_body.kids[gpc.stmt]>>)
    /\ gpc' = place("body", gpc.decl, gpc.stmt + 1)
    /\ UNCHANGED <<pre, tu, unit_io>>

\* the end of the body (emit_compound_statement, emit_statement) and the rest
\* of emit_function_definition and emit_declaration
EmitFunctionEnd ==
    /\ gpc.at = "body"
    /\ ~enc.failed
    /\ gpc.stmt > Len(function_body.kids)
    /\ enc' = to_io(emit("function_definition_end", <<to_io(enc, <<Txt("\n")>>), unit_io,
                                             tu[gpc.decl]>>),
                     <<Txt("\n")>>)
    /\ unit_io' = <<>>
    /\ gpc' = place("unit", gpc.decl + 1, 1)
    /\ UNCHANGED <<pre, tu>>

\* postgen after the last declaration; the main function is the last one
Postgen ==
    /\ gpc.at = "unit"
    /\ ~enc.failed
    /\ gpc.decl > Len(tu)
    /\ enc' = postgen(enc, tu[Len(tu)].n)
    /\ gpc' = place("done", gpc.decl, 1)
    /\ UNCHANGED <<pre, tu, unit_io>>

NextGen ==
    \/ Pregen
    \/ EmitFunctionDefinition
    \/ EmitStatement
    \/ EmitFunctionEnd
    \/ Postgen

SpecGen == InitGen /\ [][NextGen]_vars

\* ------------------------------------------------------------------------
\* The register allocator on its own: get_register, get_float_register and
\* free_register called in any order
\* ------------------------------------------------------------------------

\* the last call and the register it returned
result(at, reg) == [at |-> at, reg |-> reg]

\* the temporaries free_register knows
Temporaries == (R_T0..R_T9) \cup (R_FT0..R_FT11)

InitRegisters ==
    /\ PreIdle
    /\ enc = information(CHOOSE g \in Uninitialised : g.n = 0)
    /\ tu = <<>>
    /\ gpc = result("start", R_ZERO)
    /\ unit_io = <<>>

GetRegister ==
    /\ ~enc.failed
    /\ \E got \in {get_register(enc)} :
           /\ enc' = got.info
           /\ gpc' = result("get_register", got.reg)
    /\ UNCHANGED <<pre, tu, unit_io>>

GetFloatRegister ==
    /\ ~enc.failed
    /\ \E got \in {get_float_register(enc)} :
           /\ enc' = got.info
           /\ gpc' = result("get_float_register", got.reg)
    /\ UNCHANGED <<pre, tu, unit_io>>

FreeRegister ==
    /\ ~enc.failed
    /\ \E reg \in Temporaries :
           /\ enc' = free_register(enc, reg)
           /\ gpc' = result("free_register", R_ZERO)
    /\ UNCHANGED <<pre, tu, unit_io>>

NextRegisters ==
    \/ GetRegister
    \/ GetFloatRegister
    \/ FreeRegister

SpecRegisters == InitRegisters /\ [][NextRegisters]_vars

\* ------------------------------------------------------------------------
\* encode_to_mips for functions whose statement is a loop in a loop
\* ------------------------------------------------------------------------

\* a loop of a class around a body
loop(class, body) ==
    CASE class = "STMT_WHILE" -> statement(class, <<expr_x, body>>)
      [] class = "STMT_DO" -> statement(class, <<body, expr_x>>)
      [] class = "STMT_FOR" -> statement(class, <<none, expr_x, none, body>>)

Loops == {"STMT_WHILE", "STMT_DO", "STMT_FOR"}

Jumps == {statement("STMT_BREAK", <<>>), statement("STMT_CONTINUE", <<>>)}

\* outer { before; inner <within>; after; }
Nested ==
    { loop(outer, statement("STMT_COMPOUND", <<before, loop(inner, within), after>>)) :
          outer \in Loops, inner \in Loops, before \in Jumps, within \in Jumps,
          after \in Jumps }

LoopUnits == { <<function(f, <<decl_x, s>>)>> : f \in 1..MaxFunction, s \in Nested }

InitLoops ==
    /\ PreIdle
    /\ \E garbage \in Uninitialised : enc = information(garbage)
    /\ tu \in LoopUnits
    /\ gpc = place("start", 1, 1)
    /\ unit_io = <<>>

SpecLoops == InitLoops /\ [][NextGen]_vars

\* ------------------------------------------------------------------------
\* encode_to_mips for functions with parameters and calls of functions
\* ------------------------------------------------------------------------

\* the functions have at most MaxParameters parameters and the calls at most
\* MaxParameters arguments
MaxParameters == 5

\* the identifiers of the parameters: integer ones and floating ones
Parameter(i) == IdentX + 1 + i

FloatParameter(i) == FloatIdent + i

function_of(ref_ident, parameters, body) ==
    node("DECL_FUNC", "", ref_ident, "func",
         <<statement("STMT_COMPOUND", body)>> \o
             [i \in 1..Len(parameters) |->
                  node("DECL_PARAM", "", parameters[i], ident_get_type(parameters[i]), <<>>)])

call(func_ref, arguments) == node("EXPR_CALL", "", func_ref, "int", arguments)

ParameterLists ==
    { [i \in 1..n |-> Parameter(i - 1)] : n \in 0..MaxParameters } \cup
    { <<FloatParameter(0)>>,
      <<Parameter(0), FloatParameter(1)>>,
      <<FloatParameter(0), FloatParameter(1), FloatParameter(2)>> }

ArgumentLists ==
    { [i \in 1..n |-> literal(6 + i)] : n \in 0..MaxParameters } \cup
    { <<node("EXPR_LITERAL", "", 1, "float", <<>>)>>,
      <<node("EXPR_IDENTIFIER", "", Parameter(0), "int", <<>>), literal(7)>> }

CallUnits ==
    { <<function_of(f, parameters, <<call(f, arguments)>>)>> :
          f \in 1..MaxFunction, parameters \in ParameterLists, arguments \in ArgumentLists }

InitCalls ==
    /\ PreIdle
    /\ \E garbage \in Uninitialised : enc = information(garbage)
    /\ tu \in CallUnits
    /\ gpc = place("start", 1, 1)
    /\ unit_io = <<>>

SpecCalls == InitCalls /\ [][NextGen]_vars

\* ------------------------------------------------------------------------
\* strings_declaration on its own: encode_to_mips for a table of strings
\* ------------------------------------------------------------------------

\* the strings have at most MaxString characters
MaxString == 3

Alphabet == {"a", "%", "\n"}

RECURSIVE StringsOf(_)

StringsOf(n) ==
    IF n = 0 THEN {<<>>}
    ELSE StringsOf(n - 1) \cup {Append(s, ch) : s \in StringsOf(n - 1), ch \in Alphabet}

\* a string in the memory: the characters, the zero byte, and behind it
\* either another zero byte or a character of something else
InMemory(s) == {s \o <<NUL>> \o behind \o <<NUL>> : behind \in {<<>>, <<"a">>}}

\* the tables of strings: one string, or a string before or after "%a"
StringTables ==
    LET images == UNION {InMemory(s) : s \in StringsOf(MaxString)}
        other == <<"%", "a", NUL, NUL>>
    IN  {<<m>> : m \in images} \cup {<<m, other>> : m \in images}
            \cup {<<other, m>> : m \in images}

InitStrings ==
    /\ PreIdle
    /\ enc = information(CHOOSE g \in Uninitialised : g.n = 0)
    /\ tu \in StringTables
    /\ gpc = place("start", 1, 1)
    /\ unit_io = <<>>

\* encode_to_mips: pregen
PregenStrings ==
    /\ gpc.at = "start"
    /\ enc' = emit("pregen", <<enc>>)
    /\ gpc' = place("strings", 1, 1)
    /\ UNCHANGED <<pre, tu, unit_io>>

\* encode_to_mips: strings_declaration
StringsDeclaration ==
    /\ gpc.at = "strings"
    /\ enc' = strings_declaration(enc, tu)
    /\ gpc' = place("unit", 1, 1)
    /\ UNCHANGED <<pre, tu, unit_io>>

NextStrings ==
    \/ PregenStrings
    \/ StringsDeclaration

SpecStrings == InitStrings /\ [][NextStrings]_vars

\* ------------------------------------------------------------------------
\* The emitted code of a function on a MIPS machine: after encode_to_mips
\* the function is entered as by jal and runs until its jr
\* ------------------------------------------------------------------------

\* the instructions of a path the machine remembers number at most MaxPath
MaxPath == 8

\* the statements that are run: x is set to v, then the statement
set_x(v) == assignment("BIN_ASSIGN", expr_x, literal(v))

float_literal(n) == node("EXPR_LITERAL", "", n, "float", <<>>)

\* if (condition) x = 3; else x = 4;
if_else(condition) == statement("STMT_IF", <<condition, set_x(3), set_x(4)>>)

predec_x == unary("UN_PREDEC", expr_x)

RunStatements ==
    { if_else(expr_x), if_else(literal(0)), if_else(literal(1)),
      if_else(float_literal(0)), if_else(float_literal(1)),
      statement("STMT_IF", <<expr_x, set_x(3)>>),
      statement("STMT_DO", <<predec_x, expr_x>>),
      statement("STMT_FOR", <<none, expr_x, predec_x, statement("STMT_CONTINUE", <<>>)>>),
      statement("STMT_FOR", <<none, expr_x, predec_x, stmt_null>>),
      statement("STMT_WHILE", <<expr_x, statement("STMT_BREAK", <<>>)>>),
      statement("STMT_RETURN", <<>>),
      statement("STMT_RETURN", <<expr_x>>),
      stmt_null }

RunUnits ==
    { <<function(f, <<decl_x, set_x(v), s>>)>> :
          f \in 1..MaxFunction, v \in {0, 1, 2}, s \in RunStatements }

\* the state of the machine: the instruction to execute, the registers, the
\* memory, and the instructions executed since the last conditional branch
machine(at, ip, reg, mem, path) ==
    [at |-> at, ip |-> ip, reg |-> reg, mem |-> mem, path |-> path]

\* the registers when the function is entered: all different
EntryRegisters == [r \in 0..63 |-> IF r = R_ZERO THEN 0 ELSE 100 + r]

RECURSIVE NextIns(_, _)

\* the first instruction of the text from a place on
NextIns(io, i) ==
    IF i > Len(io) THEN i
    ELSE IF io[i].t = "ins" THEN i
    ELSE NextIns(io, i + 1)

\* the places where a label is declared
Declared(io, lbl) ==
    {i \in 1..(Len(io) - 1) : io[i] = lbl /\ io[i + 1] = Txt(":\n")}

\* the operands of the instruction to execute
Operand(k) == enc.io[gpc.ip + k]

Mnemonic == IF gpc.ip <= Len(enc.io) THEN enc.io[gpc.ip].s ELSE "end"

Running == gpc.at = "run"

\* the machine after an instruction that does not jump
Continued(reg, mem) ==
    machine("run", NextIns(enc.io, gpc.ip + 1), reg, mem,
            IF Len(gpc.path) < MaxPath THEN Append(gpc.path, Mnemonic) ELSE gpc.path)

\* the machine after a jump to a label: a label that is declared more than
\* once leads to any of its declarations, one that is not declared to none
Jumped(lbl, path) ==
    IF Declared(enc.io, lbl) = {}
    THEN {machine("fault", gpc.ip, gpc.reg, gpc.mem, path)}
    ELSE {machine("run", NextIns(enc.io, i), gpc.reg, gpc.mem, path) : i \in Declared(enc.io, lbl)}

\* the word of the memory at an address: any word when nothing was stored
Word32(address) ==
    IF address \in DOMAIN gpc.mem THEN {gpc.mem[address]} ELSE {0, 1}

\* jal: the function that postgen calls is entered
Enter ==
    /\ gpc.at = "done"
    /\ ~enc.failed
    /\ \E i \in Declared(enc.io, Lbl(label("L_FUNC", tu[Len(tu)].n))) :
           gpc' = machine("run", NextIns(enc.io, i), EntryRegisters, <<>>, <<"jal">>)
    /\ UNCHANGED <<pre, enc, tu, unit_io>>

\* sw, s.s
RunStore ==
    /\ Running
    /\ Mnemonic \in {"sw", "s.s"}
    /\ gpc' = Continued(gpc.reg,
                        (gpc.reg[Operand(3).n] + Operand(2).n :> gpc.reg[Operand(1).n])
                            @@ gpc.mem)
    /\ UNCHANGED <<pre, enc, tu, unit_io>>

\* lw, l.s
RunLoad ==
    /\ Running
    /\ Mnemonic \in {"lw", "l.s"}
    /\ \E word \in Word32(gpc.reg[Operand(3).n] + Operand(2).n) :
           gpc' = Continued([gpc.reg EXCEPT ![Operand(1).n] = word], gpc.mem)
    /\ UNCHANGED <<pre, enc, tu, unit_io>>

\* the value of the last operand of an arithmetic instruction
Value(token) == IF token.t = "imm" THEN token.n ELSE gpc.reg[token.n]

\* the instructions of two operands the machine computes
Arithmetic == {"addi", "add", "sub", "mul", "div", "mod", "sll", "sllv", "sra", "srav"}

RECURSIVE Power2(_)

Power2(n) == IF n = 0 THEN 1 ELSE 2 * Power2(n - 1)

\* the result of an arithmetic instruction on two words; the quotient, the
\* remainder and the shifts are followed for operands that are not negative
Computed(mnemonic, a, b) ==
    CASE mnemonic \in {"addi", "add"} -> a + b
      [] mnemonic = "sub" -> a - b
      [] mnemonic = "mul" -> a * b
      [] mnemonic = "div" -> a \div b
      [] mnemonic = "mod" -> a % b
      [] mnemonic \in {"sll", "sllv"} -> a * Power2(b)
      [] OTHER -> a \div Power2(b)

\* the instruction has an outcome the machine follows
Defined(mnemonic, a, b) ==
    CASE mnemonic \in {"div", "mod"} -> a >= 0 /\ b > 0
      [] mnemonic \in {"sll", "sllv", "sra", "srav"} -> a >= 0 /\ b \in 0..31
      [] OTHER -> TRUE

\* li, li.s, move, mov.s and the arithmetic of emit_binary_operation
RunCompute ==
    /\ Running
    /\ Mnemonic \in {"li", "li.s", "move", "mov.s"} \cup Arithmetic
    /\ gpc' = IF Mnemonic \notin Arithmetic
              THEN Continued([gpc.reg EXCEPT ![Operand(1).n] = Value(Operand(2))], gpc.mem)
              ELSE IF Defined(Mnemonic, gpc.reg[Operand(2).n], Value(Operand(3)))
              THEN Continued([gpc.reg EXCEPT ![Operand(1).n] =
                                  Computed(Mnemonic, gpc.reg[Operand(2).n],
                                           Value(Operand(3)))],
                             gpc.mem)
              ELSE machine("fault", gpc.ip, gpc.reg, gpc.mem, gpc.path)
    /\ UNCHANGED <<pre, enc, tu, unit_io>>

\* the branches on one register and on two
BranchesOnSign == {"bgtz", "bltz", "bgez", "blez"}

BranchesOnPair == {"beq", "bne"}

\* the branch is taken
Taken ==
    CASE Mnemonic = "bgtz" -> gpc.reg[Operand(1).n] > 0
      [] Mnemonic = "bltz" -> gpc.reg[Operand(1).n] < 0
      [] Mnemonic = "bgez" -> gpc.reg[Operand(1).n] >= 0
      [] Mnemonic = "blez" -> gpc.reg[Operand(1).n] <= 0
      [] Mnemonic = "beq" -> gpc.reg[Operand(1).n] = gpc.reg[Operand(2).n]
      [] OTHER -> gpc.reg[Operand(1).n] # gpc.reg[Operand(2).n]

\* the operands of the branch are the ones its mnemonic takes
WellFormed ==
    /\ Operand(1).t = "reg"
    /\ IF Mnemonic \in BranchesOnPair
       THEN Operand(2).t = "reg" /\ Operand(3).t = "label"
       ELSE Operand(2).t = "label"

\* beq, bne, bgtz, bltz, bgez, blez: a branch with other operands than its
\* mnemonic takes is not an instruction of the machine
RunBranch ==
    /\ Running
    /\ Mnemonic \in BranchesOnSign \cup BranchesOnPair
    /\ IF ~WellFormed
       THEN gpc' = machine("fault", gpc.ip, gpc.reg, gpc.mem, <<>>)
       ELSE IF Taken
       THEN gpc' \in Jumped(Operand(IF Mnemonic \in BranchesOnPair THEN 3 ELSE 2), <<>>)
       ELSE gpc' = machine("run", NextIns(enc.io, gpc.ip + 1), gpc.reg, gpc.mem, <<>>)
    /\ UNCHANGED <<pre, enc, tu, unit_io>>

\* j
RunJump ==
    /\ Running
    /\ Mnemonic = "j"
    /\ gpc' \in Jumped(Operand(1),
                       IF Len(gpc.path) < MaxPath THEN Append(gpc.path, "j") ELSE gpc.path)
    /\ UNCHANGED <<pre, enc, tu, unit_io>>

\* jr: the function returns
RunReturn ==
    /\ Running
    /\ Mnemonic = "jr"
    /\ gpc' = machine("returned", gpc.reg[Operand(1).n], gpc.reg, gpc.mem, gpc.path)
    /\ UNCHANGED <<pre, enc, tu, unit_io>>

InitRun ==
    /\ PreIdle
    /\ \E garbage \in Uninitialised : enc = information(garbage)
    /\ tu \in RunUnits
    /\ gpc = place("start", 1, 1)
    /\ unit_io = <<>>

NextRun ==
    \/ NextGen
    \/ Enter
    \/ RunStore
    \/ RunLoad
    \/ RunCompute
    \/ RunBranch
    \/ RunJump
    \/ RunReturn

SpecRun == InitRun /\ [][NextRun]_vars

\* ------------------------------------------------------------------------
\* the code of the binary operations, run
\* ------------------------------------------------------------------------

\* the operators that are run, and the operands: x op c, c op x, x op x
Relations == {"BIN_LT", "BIN_GT", "BIN_LE", "BIN_GE", "BIN_EQ", "BIN_NE"}

NonCommutative == {"BIN_SUB", "BIN_DIV", "BIN_REM", "BIN_SHL", "BIN_SHR"}

OperandPairs ==
    {<<expr_x, literal(2)>>, <<literal(2), expr_x>>, <<expr_x, expr_x>>}

\* x = v; x = l op r;
OperationUnits ==
    { <<function(MaxFunction, <<decl_x, set_x(v),
                      assignment("BIN_ASSIGN", expr_x, binary(op, o[1], o[2]))>>)>> :
          v \in {1, 2, 3}, op \in Relations \cup NonCommutative \cup {"BIN_ADD", "BIN_MUL"},
          o \in OperandPairs }

InitOperations ==
    /\ PreIdle
    /\ \E garbage \in Uninitialised : enc = information(garbage)
    /\ tu \in OperationUnits
    /\ gpc = place("start", 1, 1)
    /\ unit_io = <<>>

SpecOperations == InitOperations /\ [][NextRun]_vars

\* ------------------------------------------------------------------------
\* emit_binary_operation on two rvalues
\* ------------------------------------------------------------------------

\* the registers get_register and get_float_register hand out, and the slot
\* of info->registers they take for each
is_allocated(reg) ==
    (reg >= R_T0 /\ reg <= R_T7) \/ (reg >= R_FT0 - 2 /\ reg <= R_FT11)

slot_of(reg) == IF reg <= R_T7 THEN reg - R_T0 ELSE reg - R_FT0 + 10

\* the operands the expressions pass. Without from_lvalue: a value in a
\* register that was handed out, the result of a call. With from_lvalue: the
\* register of emit_inc_dec_expression for the value before the change and
\* the bound of an array, which get_register handed out, and $0. A constant.
OperandRvalues(type) ==
    {rvalue("REGISTER", type, FALSE, reg) :
         reg \in IF type_is_floating(type) THEN {R_FT0 - 2, R_FT0, R_FV0}
                 ELSE {R_T0, R_T0 + 1, R_V0}} \cup
    {rvalue("REGISTER", type, TRUE, reg) : reg \in {R_T0, R_T0 + 1}} \cup
    (IF type_is_floating(type) THEN {} ELSE {rvalue("REGISTER", type, TRUE, R_ZERO)}) \cup
    {rvalue("CONST", type, FALSE, 2)}

\* one operand at least is in a register, and a register holds one thing
OperandRvaluePairs ==
    {o \in UNION {OperandRvalues(type) \X OperandRvalues(type) : type \in {"int", "float"}} :
         /\ o[1].kind = "REGISTER" \/ o[2].kind = "REGISTER"
         /\ (o[1].kind = "REGISTER" /\ o[2].kind = "REGISTER" /\ o[1].val = o[2].val)
                => (o[1].from_lvalue = o[2].from_lvalue)}

Operations ==
    {"BIN_LT", "BIN_GT", "BIN_LE", "BIN_GE", "BIN_EQ", "BIN_NE", "BIN_ADD", "BIN_SUB",
     "BIN_MUL", "BIN_DIV", "BIN_REM", "BIN_SHL", "BIN_SHR", "BIN_AND", "BIN_XOR", "BIN_OR"}

\* the registers of the operands are taken; of the others none, one, or
\* every one of $t0..$t7
InitBinary ==
    /\ PreIdle
    /\ tu = <<>>
    /\ unit_io = <<>>
    /\ \E o \in OperandRvaluePairs, operation \in Operations,
          others \in {{}, {2}, 0..(TEMP_REG_AMOUNT - 1)} :
           /\ gpc = [at |-> "call", rval1 |-> o[1], rval2 |-> o[2], operation |-> operation,
                     result |-> rvalue_void]
           /\ enc = [information(CHOOSE g \in Uninitialised : g.n = 0) EXCEPT
                         !.registers = busy(others \cup
                                            {slot_of(r.val) :
                                                 r \in {q \in {o[1], o[2]} :
                                                            /\ q.kind = "REGISTER"
                                                            /\ is_allocated(q.val)}})]

BinaryOperation ==
    /\ UNCHANGED <<pre, tu, unit_io>>
    /\ gpc.at = "call"
    /\ \E res \in {emit("emit_binary_operation",
                         <<enc, gpc.rval1, gpc.rval2, gpc.operation>>)} :
           /\ enc' = res.info
           /\ gpc' = [gpc EXCEPT !.at = "called", !.result = res.rval]

SpecBinary == InitBinary /\ [][BinaryOperation]_vars

\* ------------------------------------------------------------------------
\* functions that declare local variables
\* ------------------------------------------------------------------------

\* the local variables of a function number at most MaxLocals
MaxLocals == 3

LocalIdents == {IdentX + i : i \in 0..(MaxLocals - 1)} \cup {FloatIdent}

decl_of(identifier) ==
    statement("STMT_DECL",
              <<node("DECL_VAR", "", identifier, ident_get_type(identifier), <<>>)>>)

RECURSIVE LocalLists(_)

\* the declarations of distinct variables, one after the other in the body
LocalLists(n) ==
    IF n = 0 THEN {<<>>}
    ELSE LET shorter == LocalLists(n - 1)
         IN  shorter \cup
             {Append(l, decl_of(id)) :
                  l \in shorter,
                  id \in LocalIdents}

Declares(l) == {l[i].kids[1].n : i \in DOMAIN l}

LocalUnits ==
    { <<function(f, l)>> :
          f \in 1..MaxFunction,
          l \in {k \in LocalLists(MaxLocals) : k # <<>> /\ Cardinality(Declares(k)) = Len(k)} }

InitLocals ==
    /\ PreIdle
    /\ \E garbage \in Uninitialised : enc = information(garbage)
    /\ tu \in LocalUnits
    /\ gpc = place("start", 1, 1)
    /\ unit_io = <<>>

SpecLocals == InitLocals /\ [][NextGen]_vars

\* the statement that is run and the value x has before it
RunStatement == tu[1].kids[1].kids[3]

EnteredWith == tu[1].kids[1].kids[2].kids[2].n

\* the value of the condition of the statement when it is evaluated first
Condition ==
    IF RunStatement.kids[1].class = "EXPR_LITERAL"
    THEN RunStatement.kids[1].n
    ELSE EnteredWith

\* the word of x in the frame of the function
AddressOfX == EntryRegisters[R_FP] - (FUNC_DISPL_PRESEREVED + WORD_LENGTH)

\* the machine is about to load a number into a register
Loads(n) == Running /\ Mnemonic = "li" /\ Operand(2).n = n

Returned == gpc.at = "returned"

\* ------------------------------------------------------------------------
\* the preprocessor on the texts: parser_preprocess of a main file
\* ------------------------------------------------------------------------

InitPre ==
    /\ GenIdle
    /\ \E g \in Programs : prs = parser_create(g.main, g.lk)
    /\ frames = <<>>
    /\ pc = "directive"
    /\ lc = Locals(1)

SpecPre == InitPre /\ [][NextPre]_vars

\* the preprocessor after parser_disable_recovery(prs, true)
InitRecovery ==
    /\ GenIdle
    /\ \E g \in Programs :
           prs = parser_disable_recovery(parser_create(g.main, g.lk), TRUE)
    /\ frames = <<>>
    /\ pc = "directive"
    /\ lc = Locals(1)

SpecRecovery == InitRecovery /\ [][NextPre]_vars

\* ------------------------------------------------------------------------
\* skip_directive on the rest of a directive line and the lines after it
\* ------------------------------------------------------------------------

\* the pieces of a text number at most MaxPieces
MaxPieces == 3

\* a name, a line break, a spliced line break, a blank, a string, a string
\* and a character that are not closed, a comment of each kind, a comment
\* over two lines, a backslash
LinePieces ==
    {<<"a">>, <<"\n">>, <<"\\", "\n">>, <<" ">>, <<"\"", "a", "\"">>, <<"\"", "a">>,
     <<"'">>, <<"/", "/", "a">>, <<"/", "*", "a", "*", "/">>,
     <<"/", "*", "\n", "*", "/">>, <<"\\">>}

RECURSIVE LineTexts(_)

LineTexts(n) ==
    IF n = 0 THEN {<<>>}
    ELSE {t \o piece : t \in LineTexts(n - 1), piece \in LinePieces \cup {<<>>}}

\* a directive has been read and the rest of its line is to be dropped; an
\* error may have been reported and the recovery may be disabled
InitSkip ==
    /\ GenIdle
    /\ \E t \in LineTexts(MaxPieces), was_error \in BOOLEAN, disabled \in BOOLEAN :
           prs = [parser_disable_recovery(parser_create(t, <<>>), disabled) EXCEPT
                      !.was_error = was_error,
                      !.errors = IF was_error THEN <<"MACRO_NAME_NON">> ELSE <<>>]
    /\ frames = <<>>
    /\ pc = "skip"
    /\ lc = Locals(1)

SkipDirective ==
    /\ UNCHANGED gen
    /\ pc = "skip"
    /\ prs' = parse("skip_directive", <<prs>>)
    /\ pc' = "skipped"
    /\ UNCHANGED <<frames, lc>>

SpecSkip == InitSkip /\ [][SkipDirective]_vars

\* ========================================================================
\* The properties of the code generator
\* ========================================================================

\* C1: emit_statement leaves the busy array as it found it: every temporary
\* register that became busy while a statement was emitted is free again
\* when emit_statement returns.  (The variable of the units lives on the
\* stack, so no register is held by a from_lvalue rvalue.)
C1_RegistersFreed ==
    [][EmitStatement /\ ~enc'.failed => enc'.registers = enc.registers]_vars

\* the places of the output where a label is declared
LabelDeclarations(io) ==
    {i \in 1..(Len(io) - 1) : io[i].t = "label" /\ io[i + 1] = Txt(":\n")}

\* C2: no label name (the prefix of its kind and its number) is declared
\* more than once in the assembly of a translation unit.
C2_LabelsDeclaredOnce ==
    \A i, j \in LabelDeclarations(enc.io) : enc.io[i] = enc.io[j] => i = j

\* ========================================================================
\* The properties of the preprocessor
\* ========================================================================

\* the calls of parse_include that have not returned
IncludeFrames == {i \in 1..Len(frames) : frames[i].ret = "include"}

\* the calls of parce_identifier that have not returned: those that wait for
\* a nested parser_preprocess and the one that is in parse_brackets
CallFrames ==
    {i \in 1..Len(frames) : frames[i].ret \in {"replacement", "observation", "value"}}

\* C3: the include counter is at most 32 and the call counter at most 256 in
\* every state, and each counter is the number of calls of parse_include,
\* respectively parce_identifier, that have not returned: a call that returns,
\* on whatever path, leaves the counter as it found it.
C3_DepthCounters ==
    /\ prs.include <= MAX_INCLUDE_DEPTH
    /\ prs.call <= MAX_CALL_DAPTH
    /\ prs.include = Cardinality(IncludeFrames)
    /\ prs.call = Cardinality(CallFrames) + (IF pc \in {"brackets", "inner"} THEN 1 ELSE 0)

\* both limits are reached at once, and calls have returned on error paths
C3_Witness ==
    /\ prs.include = MAX_INCLUDE_DEPTH
    /\ prs.call = MAX_CALL_DAPTH
    /\ \E i \in DOMAIN prs.errors : prs.errors[i] = "INCLUDE_DEPTH"

\* the identifier that starts at a position of a text
RECURSIVE Word(_, _)

Word(in, pos) ==
    IF pos <= Len(in) /\ (utf8_is_letter(in[pos]) \/ utf8_is_digit(in[pos]))
    THEN <<in[pos]>> \o Word(in, pos + 1)
    ELSE <<>>

\* the text that starts at a position of a text
StartsWith(in, pos, text) ==
    /\ pos + Len(text) - 1 <= Len(in)
    /\ SubSeq(in, pos, pos + Len(text) - 1) = text

\* parse_until is at an identifier that is the name of a macro
AtMacro ==
    /\ pc = "until"
    /\ out_is_correct(prs)
    /\ utf8_is_letter(in_peek(prs))
    /\ Word(prs.in, prs.pos) \in DOMAIN prs.stg.tab

\* C4: a macro name read while the call depth is 256 or more is reported
\* with CALL_DEPTH and written to the output as it is; it is not expanded
\* and the call counter stays; so the depth never exceeds 256.
C4_CallDepth ==
    [][/\ prs'.call <= MAX_CALL_DAPTH
       /\ (AtMacro /\ prs.call >= MAX_CALL_DAPTH) =>
              /\ prs'.call = prs.call
              /\ prs'.errors = log(prs.errors, "CALL_DEPTH")
              /\ prs'.out.s = prs.out.s \o Word(prs.in, prs.pos)
              /\ prs'.pos = prs.pos + Len(Word(prs.in, prs.pos))
              /\ prs'.in = prs.in
              /\ prs'.stg = prs.stg
              /\ frames' = frames]_vars

\* the name was passed through at the limit
C4_Witness ==
    /\ prs.call = MAX_CALL_DAPTH
    /\ prs.errors = <<"CALL_DEPTH">>
    /\ pc = "until"
    /\ ~AtMacro

\* C5: no loop of the preprocessor takes more than MAX_ITERATION iterations
\* in one expansion step.
C5_IterationBound == lc.iter <= MAX_ITERATION

\* the position after the blanks and line breaks that start at a position
RECURSIVE SkipBlanks(_, _)

SkipBlanks(in, pos) ==
    IF pos <= Len(in) /\ in[pos] \in {" ", "\t", "\n"}
    THEN SkipBlanks(in, pos + 1)
    ELSE pos

CharAt(in, pos) == IF pos <= Len(in) THEN in[pos] ELSE EOF

\* the position after the '()' pair that follows a position, or the position
\* itself when no pair follows
AfterPair(in, pos) ==
    IF CharAt(in, SkipBlanks(in, pos)) = "(" /\
       CharAt(in, SkipBlanks(in, SkipBlanks(in, pos) + 1)) = ")"
    THEN SkipBlanks(in, SkipBlanks(in, pos) + 1) + 1
    ELSE pos

LineBreaks(in, from, to) == Cardinality({i \in from..(to - 1) : in[i] = "\n"})

\* the caller's side of the innermost nested parser_preprocess
Caller(stack) == stack[Len(stack)]

\* C6: the name of a macro without parameters expands to the body of the
\* macro whether or not a '()' pair follows it, blanks and line breaks
\* allowed before and inside the pair; the call consumes the name and the
\* pair, and only the name when no pair follows: the position and the line
\* are then those after the name.
C6_ArityZero ==
    [][(/\ AtMacro
        /\ prs.call < MAX_CALL_DAPTH
        /\ prs.stg.tab[Word(prs.in, prs.pos)].args = 0) =>
           /\ prs'.in = prs.stg.tab[Word(prs.in, prs.pos)].value
           /\ prs'.pos = 1
           /\ Len(frames') = Len(frames) + 1
           /\ Caller(frames').in = prs.in
           /\ Caller(frames').pos =
                  AfterPair(prs.in, prs.pos + Len(Word(prs.in, prs.pos)))
           /\ Caller(frames').loc = prs.loc +
                  LineBreaks(prs.in, prs.pos,
                             AfterPair(prs.in, prs.pos + Len(Word(prs.in, prs.pos))))]_vars

\* a pair written over three lines has been consumed by a call in the main file
C6_Witness ==
    /\ frames # <<>>
    /\ Caller(frames).ret = "replacement"
    /\ Caller(frames).file
    /\ Caller(frames).pos > 2
    /\ Caller(frames).in[Caller(frames).pos - 1] = ")"
    /\ Caller(frames).in[Caller(frames).pos - 2] = "\n"
    /\ prs.in = <<"b">>

\* a text with every double quote and every backslash preceded by a backslash
RECURSIVE Escaped(_)

Escaped(text) ==
    IF text = <<>> THEN <<>>
    ELSE (IF Head(text) \in {"\"", "\\"} THEN <<"\\">> ELSE <<>>)
         \o <<Head(text)>> \o Escaped(Tail(text))

\* C7: the string form stored for an actual argument is the expanded
\* argument between double quotes, with every double quote and every
\* backslash of it escaped.
C7_StringOfExpanded ==
    \A arg \in 0..1 :
        (/\ lc.index # SIZE_MAX
         /\ MASK_ARGUMENT(lc.index) \o zu(arg) \o MASK_POSTFIX \in DOMAIN lc.stg.tab
         /\ MASK_STRING(lc.index) \o zu(arg) \o MASK_POSTFIX \in DOMAIN lc.stg.tab) =>
            lc.stg.tab[MASK_STRING(lc.index) \o zu(arg) \o MASK_POSTFIX].value =
                <<"\"">>
                \o Escaped(lc.stg.tab[MASK_ARGUMENT(lc.index) \o zu(arg) \o MASK_POSTFIX].value)
                \o <<"\"">>

\* a text holds another
Contains(text, part) ==
    \E i \in 1..(Len(text) - Len(part) + 1) : SubSeq(text, i, i + Len(part) - 1) = part

\* C8: after #define A B and #define F(x) x##_ the call F(A) expands to B_;
\* the '##' before an ordinary token is accepted by #define.
C8_PasteExpands ==
    (pc = "done" /\ prs.in = DefineAB \o DefineFPaste \o CallA \o Rest) =>
        /\ prs.errors = <<>>
        /\ Contains(prs.out.s, <<"B", "_">>)

\* #undef and a blank, #define and a blank
UndefOf == <<"#", "u", "n", "d", "e", "f", " ">>

DefineOf == <<"#", "d", "e", "f", "i", "n", "e", " ">>

\* C9: #undef removes the name, whatever #define and #set made of it before,
\* and leaves the other macros alone; it reports nothing, also when the name
\* is not defined; a name that is not a macro is written as it is.
C9_Undef ==
    [][/\ (pc = "directive" /\ StartsWith(prs.in, prs.pos, UndefOf)) =>
              /\ DOMAIN prs'.stg.tab =
                     DOMAIN prs.stg.tab \ {Word(prs.in, prs.pos + Len(UndefOf))}
              /\ \A key \in DOMAIN prs'.stg.tab : prs'.stg.tab[key] = prs.stg.tab[key]
              /\ prs'.errors = prs.errors
              /\ prs'.warnings = prs.warnings
       /\ (/\ pc = "until"
           /\ out_is_correct(prs)
           /\ utf8_is_letter(in_peek(prs))
           /\ ~AtMacro) =>
              /\ prs'.out.s = prs.out.s \o Word(prs.in, prs.pos)
              /\ prs'.pos = prs.pos + Len(Word(prs.in, prs.pos))
              /\ prs'.stg = prs.stg
              /\ frames' = frames]_vars

\* A was defined and then removed, and the A after that was written as it is
C9_Witness ==
    /\ pc = "done"
    /\ prs.in = DefineAB \o UndefA \o UseAB
    /\ prs.out.s = UseAB
    /\ prs.errors = <<>>
    /\ prs.warnings = <<>>

\* the position after the line break that ends the line of a position
RECURSIVE LineEnd(_, _)

LineEnd(in, pos) ==
    IF pos > Len(in) THEN pos
    ELSE IF in[pos] = "\n" THEN pos + 1
    ELSE LineEnd(in, pos + 1)

\* C10: #define of a name that is defined reports MACRO_NAME_REDEFINE and
\* leaves the storage, with the arity and the body of the macro, as it is;
\* the rest of the line is skipped and nothing is written.
C10_Redefine ==
    [][(/\ pc = "directive"
        /\ StartsWith(prs.in, prs.pos, DefineOf)
        /\ Word(prs.in, prs.pos + Len(DefineOf)) \in DOMAIN prs.stg.tab) =>
           /\ prs'.stg = prs.stg
           /\ prs'.errors = log(prs.errors, "MACRO_NAME_REDEFINE")
           /\ prs'.warnings = prs.warnings
           /\ prs'.out = prs.out
           /\ prs'.pos = LineEnd(prs.in, prs.pos)
           /\ frames' = frames]_vars

\* A stays B after #define A(x) C, and the line of the directive is left out
C10_Witness ==
    /\ pc = "done"
    /\ prs.in = DefineAB \o DefineAC \o UseAB
    /\ prs.errors = <<"MACRO_NAME_REDEFINE">>
    /\ prs.stg.tab[<<"A">>].args = 0
    /\ prs.stg.tab[<<"A">>].value = <<"B">>

\* C11: with recovery disabled a run reports at most one error: after the
\* first one was_error stays set, the log of errors stays as it is, and the
\* flag of the recovery itself is left as it was found.
C11_OneError ==
    [][prs.is_recovery_disabled =>
           /\ prs'.is_recovery_disabled
           /\ Len(prs'.errors) <= 1
           /\ prs'.was_error = (prs'.errors # <<>>)
           /\ prs.was_error => (prs'.was_error /\ prs'.errors = prs.errors)]_vars

\* #include "h without the closing quote is preprocessed to the end: the
\* unterminated string was reported and the missing file name was not
C11_Witness ==
    /\ prs.is_recovery_disabled
    /\ pc = "done"
    /\ prs.in = IncludeOpen \o UseAB
    /\ prs.errors = <<"STRING_UNTERMINATED">>
    /\ prs.was_error

\* the busy bit free_register clears for a temporary
Slot(reg) ==
    IF reg <= R_T7 THEN reg - R_T0
    ELSE IF reg <= R_T9 THEN reg - R_T8 + 8
    ELSE reg - R_FT0 + 10

\* a call that took a register of a bank took the lowest free one of the
\* bank and made it busy, or failed when the bank has none
TakenFrom(bank) ==
    IF \E reg \in bank : ~enc.registers[Slot(reg)]
    THEN /\ ~enc'.failed
         /\ gpc'.reg \in bank
         /\ ~enc.registers[Slot(gpc'.reg)]
         /\ \A reg \in bank : reg < gpc'.reg => enc.registers[Slot(reg)]
         /\ enc'.registers = [enc.registers EXCEPT ![Slot(gpc'.reg)] = TRUE]
    ELSE enc'.failed

\* C12: get_register returns the lowest free register of $t0..$t7 and
\* get_float_register the lowest free one of $ft0..$ft11; the call sets the
\* busy bit of that register and no other, and fails when the bank is full.
C12_LowestFree ==
    [][/\ gpc'.at = "get_register" => TakenFrom(R_T0..R_T7)
       /\ gpc'.at = "get_float_register" => TakenFrom(R_FT0..R_FT11)]_vars

\* the half of C12 that is get_register's
C12_LowestFreeTemporary ==
    [][gpc'.at = "get_register" => TakenFrom(R_T0..R_T7)]_vars

C13_WitnessFloatingConstant ==
    /\ RunStatement = if_else(float_literal(1))
    /\ Returned
    /\ gpc.mem[AddressOfX] = 3

\* the registers the prologue of a function saves
Preserved ==
    {R_RA, R_SP}
        \cup (R_S0..(R_S0 + PRESERVED_REG_AMOUNT - 1))
        \cup {R_FS0 + 2 * i : i \in 0..(PRESERVED_FP_REG_AMOUNT \div 2 - 1)}
        \cup (R_A0..(R_A0 + ARG_REG_AMOUNT - 1))

\* the registers and the offsets below $fp of the instructions of some names
BelowFp(io, names) ==
    { <<io[i + 1].n, io[i + 2].n>> :
          i \in {j \in 1..(Len(io) - 3) :
                     /\ io[j].t = "ins"
                     /\ io[j].s \in names
                     /\ io[j + 3] = Reg(R_FP)
                     /\ io[j + 2].n < 0} }

\* C14: the epilogue loads what the prologue stored, each register from the
\* offset it was stored at, and a function that returns has set $fp and every
\* saved register to the value it had when the function was entered
C14_Restored ==
    /\ gpc.at \in {"done", "run", "returned"} =>
           /\ BelowFp(enc.io, {"sw", "s.s"}) = BelowFp(enc.io, {"lw", "l.s"})
           /\ {saved[1] : saved \in BelowFp(enc.io, {"sw", "s.s"})} = Preserved
    /\ Returned =>
           \A r \in Preserved \cup {R_FP} : gpc.reg[r] = EntryRegisters[r]

C14_Witness ==
    /\ Returned
    /\ RunStatement.class = "STMT_DO"
    /\ gpc.reg[R_FP] = EntryRegisters[R_FP]
    /\ gpc.mem[EntryRegisters[R_FP] - RA_SIZE] = EntryRegisters[R_RA]
    /\ gpc.reg[R_RA] = EntryRegisters[R_RA]
    /\ gpc.ip = EntryRegisters[R_RA]

\* the string a table holds: the characters before the zero byte
RECURSIVE Characters(_, _)

Characters(string, j) ==
    IF string_at(string, j) = NUL THEN <<>>
    ELSE <<string_at(string, j)>> \o Characters(string, j + 1)

RECURSIVE Piece(_, _)

\* the characters an assembler reads in .ascii from a place of the text up
\* to the closing \0": \n is the line feed, a zero byte adds nothing
Piece(io, p) ==
    IF p > Len(io) \/ io[p] = Txt("\\0\"\n") THEN <<>>
    ELSE (IF io[p].s = NUL THEN <<>>
          ELSE IF io[p].s = "\\n" THEN <<"\n">>
          ELSE <<io[p].s>>) \o Piece(io, p + 1)

\* the places where .ascii follows a label
Ascii(io, lbl) ==
    {p \in 1..(Len(io) - 1) : io[p] = Lbl(lbl) /\ io[p + 1] = Txt("\t.ascii \"")}

RECURSIVE Pieces(_, _, _, _)

\* the pieces under the labels STRING<i + k * amount> from k on, concatenated
Pieces(io, i, amount, k) ==
    LET at == Ascii(io, label("L_STRING", i + k * amount))
    IN  IF at = {} THEN <<>>
        ELSE Piece(io, (CHOOSE p \in at : TRUE) + 2) \o Pieces(io, i, amount, k + 1)

\* C15: the pieces emitted under the labels STRING<i + k * amount>,
\* concatenated in the order of k, are the string i of the table
C15_Pieces ==
    (gpc.at = "unit") =>
        \A i \in 0..(Len(tu) - 1) : Pieces(enc.io, i, Len(tu), 0) = Characters(tu[i + 1], 0)

\* the argument of the last % of a string: the character behind it
RECURSIVE LastArgument(_, _)

LastArgument(string, j) ==
    IF string_at(string, j) = NUL THEN "a"
    ELSE IF string_at(string, j) = "%"
    THEN IF string_at(string, j + 1) = NUL THEN NUL ELSE LastArgument(string, j + 2)
    ELSE LastArgument(string, j + 1)

\* C15 for the strings in which every % has a character behind it
C15_PiecesOfWholeConversions ==
    (gpc.at = "unit") =>
        \A i \in 0..(Len(tu) - 1) :
            LastArgument(tu[i + 1], 0) # NUL =>
                Pieces(enc.io, i, Len(tu), 0) = Characters(tu[i + 1], 0)

\* emit_function_definition is about to be called for a function
FunctionStarts == gpc.at = "unit" /\ gpc.decl <= Len(tu)

\* C16: when the emitting of a function definition starts, the first of the
\* unit included, no register is busy
C16_AllFree == FunctionStarts => \A i \in DOMAIN enc.registers : ~enc.registers[i]

\* C16 for the functions after the first, when encode_to_mips found the
\* array with no register busy
C16_AllFreeBetween ==
    []((FunctionStarts /\ gpc.decl = 1 /\ \A i \in DOMAIN enc.registers : ~enc.registers[i])
           => [](FunctionStarts => \A i \in DOMAIN enc.registers : ~enc.registers[i]))

\* C17: the branch the code of do S while (c) makes after the condition
\* names BEGIN_CYCLE, goes back to it when the condition is not zero and
\* goes on behind the loop when it is zero
C17_DoBranch ==
    [][(Running /\ Mnemonic = "beq" /\ RunStatement.class = "STMT_DO") =>
           /\ Operand(3).s = "L_BEGIN_CYCLE"
           /\ (gpc'.ip < gpc.ip) <=> (gpc.reg[Operand(1).n] # 0)]_vars

\* the additions among the instructions executed since the last branch
Additions == Cardinality({i \in DOMAIN gpc.path : gpc.path[i] = "addi"})

\* the machine is about to branch on the condition of a loop it has gone
\* round at least once
BranchesAgain ==
    /\ Running
    /\ Mnemonic = "beq"
    /\ Len(gpc.path) < MaxPath
    /\ gpc.path[1] # "jal"

for_x(body) == statement("STMT_FOR", <<none, expr_x, predec_x, body>>)

\* C18: in for (; x; --x) continue; the increment runs exactly once between
\* two evaluations of the condition
C18_ContinueIncrements ==
    (RunStatement = for_x(statement("STMT_CONTINUE", <<>>)) /\ BranchesAgain) => Additions = 1

\* the same for a body that does not continue
C18_BodyIncrements ==
    (RunStatement = for_x(stmt_null) /\ BranchesAgain) => Additions = 1

C18_BodyIncrementsWitness ==
    RunStatement = for_x(stmt_null) /\ BranchesAgain /\ Additions = 1

\* the label a return of the function jumps to
FuncEnd == Lbl(label("L_FUNCEND", tu[1].n))

\* C20: the label FUNCEND of the function is declared
C20_Declared ==
    (RunStatement.class = "STMT_RETURN" /\ gpc.at = "done") =>
        Cardinality(Declared(enc.io, FuncEnd)) = 1

\* C20: the jump of return x is made with the value of x in $v0
C20_Value ==
    (RunStatement = statement("STMT_RETURN", <<expr_x>>) /\ Running /\ Mnemonic = "j") =>
        gpc.reg[R_V0] = EnteredWith

\* C20: a return jumps to FUNCEND of the function, FUNCEND is declared
\* exactly once, before the epilogue, and the value is in $v0
C20_Return ==
    /\ (RunStatement.class = "STMT_RETURN" /\ Running /\ Mnemonic = "j") =>
           Operand(1) = FuncEnd
    /\ C20_Declared
    /\ C20_Value

\* the numbers of the loops whose code, from the declaration of BEGIN_CYCLE
\* to the declaration of END, holds a place of the text
Around(io, p) ==
    { n \in {io[q].n : q \in {r \in 1..Len(io) : io[r].t = "label"}} :
          /\ \E b \in Declared(io, Lbl(label("L_BEGIN_CYCLE", n))) : b < p
          /\ \E e \in Declared(io, Lbl(label("L_END", n))) : p < e }

\* the number of the innermost of them: the loop that was begun last
Innermost(io, p) == CHOOSE n \in Around(io, p) : \A m \in Around(io, p) : m <= n

\* every jump in the code of a loop goes to a label of the innermost loop
\* around it
TargetsInnermost(io) ==
    \A p \in 1..(Len(io) - 1) :
        (io[p] = Ins("j") /\ Around(io, p) # {}) =>
            /\ io[p + 1].n = Innermost(io, p)
            /\ io[p + 1].s \in {"L_BEGIN_CYCLE", "L_NEXT", "L_END"}

\* C19: the emitting of a statement, loops nested in loops included, leaves
\* label_continue and label_break as it found them, and the jumps of break
\* and continue in the body of a loop go to the labels of the innermost loop
\* around them
C19_LabelsRestored ==
    [][(gpc.at = "body" /\ gpc'.at = "body") =>
           /\ enc'.label_continue = enc.label_continue
           /\ enc'.label_break = enc.label_break
           /\ TargetsInnermost(enc'.io)]_vars

C19_Witness ==
    /\ gpc.at = "body"
    /\ gpc.stmt = 3
    /\ ~enc.failed
    /\ function_body.kids[2] =
           loop("STMT_WHILE",
                statement("STMT_COMPOUND",
                          <<statement("STMT_BREAK", <<>>),
                            loop("STMT_DO", statement("STMT_BREAK", <<>>)),
                            statement("STMT_CONTINUE", <<>>)>>))
    /\ enc.label_continue = label("L_END", 0)
    /\ \E p \in 1..(Len(enc.io) - 1) :
           /\ enc.io[p] = Ins("j")
           /\ enc.io[p + 1] = Lbl(label("L_END", 2))
           /\ Around(enc.io, p) = {1, 2}

\* the amounts added to $fp by the text from a place on, in their order
FpAdjustments(io, from) ==
    LET Adds(p) == io[p] = Ins("addi") /\ io[p + 1] = Reg(R_FP) /\ io[p + 2] = Reg(R_FP)
        places == SelectSeq([p \in 1..(Len(io) - 3) |-> p + from - 1], Adds)
    IN  [k \in 1..Len(places) |-> io[places[k] + 3].n]

\* the call that is the statement of the function has been emitted
CallEmitted ==
    /\ gpc.at = "body"
    /\ gpc.stmt = 2
    /\ ~enc.failed
    /\ function_body.kids[1].class = "EXPR_CALL"

Argc == Len(function_body.kids[1].kids)

\* C21: the code of a call with argc arguments takes argc words from $fp
\* before the arguments are passed and gives them back after the call, and
\* no amount is the size that wrapped around below zero
C21_FpAdjusted ==
    CallEmitted =>
        /\ FpAdjustments(enc.io, 1) \in
               {<<-(Argc * WORD_LENGTH), Argc * WORD_LENGTH>>} \cup
                   (IF Argc = 0 THEN {<<>>} ELSE {})
        /\ (Argc - 1) * WORD_LENGTH >= 0

\* what of C21 holds: whatever is taken from $fp is given back
C21_FpUnchanged ==
    CallEmitted =>
        \/ FpAdjustments(enc.io, 1) = <<>>
        \/ /\ Len(FpAdjustments(enc.io, 1)) = 2
           /\ FpAdjustments(enc.io, 1)[1] + FpAdjustments(enc.io, 1)[2] = 0

\* C21 with the amount of the code, a word less than argc words, for the
\* calls with arguments
C21_FpAdjustedByOneLess ==
    (CallEmitted /\ Argc > 1) =>
        FpAdjustments(enc.io, 1) = <<-((Argc - 1) * WORD_LENGTH), (Argc - 1) * WORD_LENGTH>>

\* the function whose body is being emitted and the lvalue the table gives
\* for its parameter i
Emitted == tu[gpc.decl]

ParameterLvalue(i) == displacements_get(enc, declaration_function_get_parameter(Emitted, i))

\* the argument register of the parameter i: the registers are counted for
\* the integer parameters and for the floating ones apart
ArgumentRegister(i) ==
    LET id == declaration_function_get_parameter(Emitted, i)
        before == {j \in 0..(i - 1) :
                       type_is_floating(ident_get_type(
                           declaration_function_get_parameter(Emitted, j)))
                           = type_is_floating(ident_get_type(id))}
    IN  IF type_is_floating(ident_get_type(id))
        THEN R_FA0 + 2 * Cardinality(before)
        ELSE R_A0 + Cardinality(before)

\* the parameters of the function have been entered into the table
ParametersEntered ==
    /\ gpc.at = "body"
    /\ gpc.stmt = 1
    /\ ~enc.failed
    /\ type_function_get_parameter_amount(Emitted) > 0

\* C22: displacements_get gives for a parameter of the function an lvalue of
\* the kind REGISTER whose register is the argument register of the
\* parameter
C22_ParameterInRegister ==
    ParametersEntered =>
        \A i \in 0..(type_function_get_parameter_amount(Emitted) - 1) :
            /\ ParameterLvalue(i).kind = "REGISTER"
            /\ ParameterLvalue(i).loc = ArgumentRegister(i)

\* what of C22 holds: the record of the parameter holds the argument register
C22_ParameterRecorded ==
    ParametersEntered =>
        \A i \in 0..(type_function_get_parameter_amount(Emitted) - 1) :
            hash_get(enc.displacements, declaration_function_get_parameter(Emitted, i), 1)
                = ArgumentRegister(i)

\* parse_brackets has left its loops at the end of the file: the argument
\* list of the call was not closed
ListAtEnd ==
    /\ pc = "brackets"
    /\ lc.character = EOF

\* C23: a call of a macro with parameters whose argument list reaches the
\* end of the file before the closing parenthesis reports ARGS_UNTERMINATED
\* and its count of arguments is not the expected one, so that
\* parse_observation does not expand the body.
C23_Unterminated ==
    ListAtEnd =>
        /\ \E e \in DOMAIN prs.errors : prs.errors[e] = "ARGS_UNTERMINATED"
        /\ lc.arg = SIZE_MAX
        /\ lc.arg # lc.expected

\* what of C23 holds: the end of the file inside an argument is reported
C23_UnterminatedInArgument ==
    (ListAtEnd /\ prs.in[Len(prs.in)] \notin {"(", ","}) =>
        /\ \E e \in DOMAIN prs.errors : prs.errors[e] = "ARGS_UNTERMINATED"
        /\ lc.arg = SIZE_MAX

\* C28: the inner loop of parse_brackets is left when the end of the file
\* is reached, with parentheses of the argument still open too.
C28_LeftAtEnd ==
    (pc = "inner" /\ lc.character = EOF) =>
        ~brackets_inner_cond(lc.brackets, lc.character)

\* what of C28 holds: with no parenthesis open the loop is left at the end
\* of the file
C28_LeftAtEndClosed ==
    (pc = "inner" /\ lc.character = EOF /\ lc.brackets = 0) =>
        ~brackets_inner_cond(lc.brackets, lc.character)

\* the position after the line break that ends the logical line which holds
\* the position i of a text: a line break after a backslash and a line break
\* inside a comment do not end it; mode is "code", "string", "character",
\* "line" inside a comment to the end of the line, "block" inside a comment
\* between its marks
RECURSIVE LogicalLineEnd(_, _, _)

LogicalLineEnd(text, i, mode) ==
    LET at(k) == IF k <= Len(text) THEN text[k] ELSE EOF
    IN  CASE at(i) = EOF -> Len(text) + 1
          [] mode = "block" ->
                IF at(i) = "*" /\ at(i + 1) = "/" THEN LogicalLineEnd(text, i + 2, "code")
                ELSE LogicalLineEnd(text, i + 1, "block")
          [] at(i) = "\\" /\ at(i + 1) = "\n" -> LogicalLineEnd(text, i + 2, mode)
          [] at(i) = "\n" -> i + 1
          [] mode = "line" -> LogicalLineEnd(text, i + 1, "line")
          [] mode \in {"string", "character"} ->
                IF at(i) = "\\" /\ at(i + 1) # EOF THEN LogicalLineEnd(text, i + 2, mode)
                ELSE IF at(i) = (IF mode = "string" THEN "\"" ELSE "'")
                THEN LogicalLineEnd(text, i + 1, "code")
                ELSE LogicalLineEnd(text, i + 1, mode)
          [] at(i) = "/" /\ at(i + 1) = "/" -> LogicalLineEnd(text, i + 2, "line")
          [] at(i) = "/" /\ at(i + 1) = "*" -> LogicalLineEnd(text, i + 2, "block")
          [] at(i) = "\"" -> LogicalLineEnd(text, i + 1, "string")
          [] at(i) = "'" -> LogicalLineEnd(text, i + 1, "character")
          [] OTHER -> LogicalLineEnd(text, i + 1, "code")

\* a string or a character of the logical line at the position i is not
\* closed before the line ends
RECURSIVE Unclosed(_, _, _)

Unclosed(text, i, mode) ==
    LET at(k) == IF k <= Len(text) THEN text[k] ELSE EOF
    IN  CASE at(i) = EOF -> mode \in {"string", "character"}
          [] mode = "block" ->
                IF at(i) = "*" /\ at(i + 1) = "/" THEN Unclosed(text, i + 2, "code")
                ELSE Unclosed(text, i + 1, "block")
          [] at(i) = "\\" /\ at(i + 1) = "\n" -> Unclosed(text, i + 2, mode)
          [] at(i) = "\n" -> mode \in {"string", "character"}
          [] mode = "line" -> Unclosed(text, i + 1, "line")
          [] mode \in {"string", "character"} ->
                IF at(i) = "\\" /\ at(i + 1) # EOF THEN Unclosed(text, i + 2, mode)
                ELSE IF at(i) = (IF mode = "string" THEN "\"" ELSE "'")
                THEN Unclosed(text, i + 1, "code")
                ELSE Unclosed(text, i + 1, mode)
          [] at(i) = "/" /\ at(i + 1) = "/" -> Unclosed(text, i + 2, "line")
          [] at(i) = "/" /\ at(i + 1) = "*" -> Unclosed(text, i + 2, "block")
          [] at(i) = "\"" -> Unclosed(text, i + 1, "string")
          [] at(i) = "'" -> Unclosed(text, i + 1, "character")
          [] OTHER -> Unclosed(text, i + 1, "code")

\* skip_directive has read up to the end of the logical line, has written
\* nothing and has put the two flags back
SkippedLine ==
    /\ prs'.pos = LogicalLineEnd(prs.in, prs.pos, "code")
    /\ prs'.in = prs.in
    /\ prs'.out = prs.out
    /\ prs'.errors = prs.errors
    /\ prs'.was_error = prs.was_error
    /\ prs'.is_recovery_disabled = prs.is_recovery_disabled

\* C24: skip_directive reads the input up to and including the line break
\* that ends the logical line and nothing after it, writes nothing to the
\* output and gives was_error and is_recovery_disabled their values of the
\* entry, on a line with a string or a character that is not closed too.
C24_SkipsLine == [][SkipDirective => SkippedLine]_vars

\* what of C24 holds: the same on the lines whose strings and characters are
\* closed
C24_SkipsLineOfClosed ==
    [][(SkipDirective /\ ~Unclosed(prs.in, prs.pos, "code")) => SkippedLine]_vars

\* what of C24 holds on every line: nothing is written and the flags are put
\* back
C24_SkipsSilently ==
    [][SkipDirective =>
           /\ prs'.out = prs.out
           /\ prs'.errors = prs.errors
           /\ prs'.was_error = prs.was_error
           /\ prs'.is_recovery_disabled = prs.is_recovery_disabled]_vars

\* the operation of the statement x = l op r that is run, and its operands
\* when the function was entered with x = EnteredWith
Operation == RunStatement.kids[2]

OperandValue(nd) == IF nd.class = "EXPR_LITERAL" THEN nd.n ELSE EnteredWith

\* the relation holds of two words
Holds(operation, a, b) ==
    CASE operation = "BIN_LT" -> a < b
      [] operation = "BIN_GT" -> a > b
      [] operation = "BIN_LE" -> a <= b
      [] operation = "BIN_GE" -> a >= b
      [] operation = "BIN_EQ" -> a = b
      [] OTHER -> a # b

\* the code of the unit was run to its end or to an instruction the machine
\* cannot execute
Ran == gpc.at \in {"returned", "fault"}

\* the word stored for x
StoredX == IF AddressOfX \in DOMAIN gpc.mem THEN gpc.mem[AddressOfX] ELSE NULL

\* C25: the code emitted for a relational operator leaves 1 in the result
\* register when the relation holds of the operands and 0 when it does
\* not, for an operand in a register and a constant and for two registers;
\* the result is read from x after x = l op r.
C25_Relation ==
    (Ran /\ Operation.op \in Relations) =>
        /\ Returned
        /\ StoredX = IF Holds(Operation.op, OperandValue(Operation.kids[1]),
                              OperandValue(Operation.kids[2]))
                     THEN 1 ELSE 0

\* what of C25 holds: for a register and a constant in this order, the
\* run that does not take the branch leaves 1 and the relation holds
C25_RelationOne ==
    (Returned /\ Operation.op \in Relations /\ Operation.kids[2].class = "EXPR_LITERAL") =>
        /\ StoredX = 1
        /\ Holds(Operation.op, OperandValue(Operation.kids[1]),
                 OperandValue(Operation.kids[2]))

\* the value of l op r
Evaluated(operation, a, b) ==
    CASE operation \in Relations -> IF Holds(operation, a, b) THEN 1 ELSE 0
      [] operation = "BIN_ADD" -> a + b
      [] operation = "BIN_SUB" -> a - b
      [] operation = "BIN_MUL" -> a * b
      [] operation = "BIN_DIV" -> a \div b
      [] operation = "BIN_REM" -> a % b
      [] operation = "BIN_SHL" -> a * Power2(b)
      [] OTHER -> a \div Power2(b)

\* C26: for an operator that is not commutative (-, /, %, <<, >>), a
\* constant on the left and a register on the right, the code computes
\* c op x, not x op c.
C26_ConstantLeft ==
    (Ran /\ Operation.op \in NonCommutative /\ Operation.kids[1].class = "EXPR_LITERAL") =>
        /\ Returned
        /\ StoredX = Evaluated(Operation.op, OperandValue(Operation.kids[1]),
                               OperandValue(Operation.kids[2]))

\* C26 for c < x, on the runs that reach the end of the function
C26_ConstantLeftRelation ==
    (Returned /\ Operation.op = "BIN_LT" /\ Operation.kids[1].class = "EXPR_LITERAL") =>
        StoredX = Evaluated(Operation.op, OperandValue(Operation.kids[1]),
                            OperandValue(Operation.kids[2]))

\* what of C26 holds: the commutative operators with the constant on the
\* left
C26_ConstantLeftCommutative ==
    (Ran /\ Operation.op \in {"BIN_ADD", "BIN_MUL"}) =>
        /\ Returned
        /\ StoredX = Evaluated(Operation.op, OperandValue(Operation.kids[1]),
                               OperandValue(Operation.kids[2]))

\* the registers of the operands that hold a variable, and of the others
OfLvalue ==
    {r.val : r \in {q \in {gpc.rval1, gpc.rval2} : q.kind = "REGISTER" /\ q.from_lvalue}}

OfValue ==
    {r.val : r \in {q \in {gpc.rval1, gpc.rval2} : q.kind = "REGISTER" /\ ~q.from_lvalue}}

\* the registers the instructions of a text write to
Destinations(io) ==
    {io[i + 1].n : i \in {k \in 1..(Len(io) - 1) :
                              /\ io[k].t = "ins"
                              /\ io[k].s \notin BranchesOnSign \cup BranchesOnPair \cup {"j"}
                              /\ io[k + 1].t = "reg"}}

\* C27: emit_binary_operation neither frees nor writes to the register of an
\* operand that has from_lvalue set: the result is in the register of an
\* operand without from_lvalue or in a register that was free.
C27_LvalueKept ==
    [][(BinaryOperation /\ ~enc'.failed) =>
           /\ gpc'.result.kind = "REGISTER"
           /\ ~gpc'.result.from_lvalue
           /\ gpc'.result.val \notin OfLvalue
           /\ \/ gpc'.result.val \in OfValue
              \/ is_allocated(gpc'.result.val) /\ ~enc.registers[slot_of(gpc'.result.val)]
           /\ Destinations(enc'.io) \cap OfLvalue = {}
           /\ \A reg \in OfLvalue :
                  is_allocated(reg) => enc'.registers[slot_of(reg)]]_vars

\* a variable in a temporary and a constant were operated on, and two
\* variables in registers
C27_Witness ==
    /\ gpc.at = "called"
    /\ ~enc.failed
    /\ gpc.rval1 = rvalue("REGISTER", "int", TRUE, R_T0)
    /\ gpc.rval2.kind = "CONST"
    /\ gpc.operation = "BIN_SUB"
    /\ gpc.result.val = R_T0 + 1
    /\ enc.registers[slot_of(R_T0)]

C27_WitnessTwoVariables ==
    /\ gpc.at = "called"
    /\ ~enc.failed
    /\ gpc.rval1.kind = "REGISTER" /\ gpc.rval1.from_lvalue
    /\ gpc.rval2.kind = "REGISTER" /\ gpc.rval2.from_lvalue
    /\ gpc.rval1.val # gpc.rval2.val
    /\ gpc.result.val \notin {gpc.rval1.val, gpc.rval2.val}

\* the local variables displacements_add has placed, and the displacement of
\* each
Placed == {id \in DOMAIN enc.displacements : Len(enc.displacements[id]) = 3}

DisplacementOf(id) == hash_get(enc.displacements, id, 1)

\* C29: two distinct local variables of the body of a function have
\* displacements a word apart at least, and max_displ is not below the end
\* of any of them.
C29_Apart ==
    /\ \A a \in Placed, b \in Placed :
           \/ a = b
           \/ DisplacementOf(a) + WORD_LENGTH <= DisplacementOf(b)
           \/ DisplacementOf(b) + WORD_LENGTH <= DisplacementOf(a)
    /\ \A a \in Placed : enc.max_displ >= DisplacementOf(a) + WORD_LENGTH

\* what of C29 holds: every local variable is placed at max_displ, relative
\* to $sp
C29_AtMaxDispl ==
    \A a \in Placed :
        /\ DisplacementOf(a) = enc.max_displ
        /\ hash_get(enc.displacements, a, 2) = R_SP
        /\ hash_get(enc.displacements, a, 0) = LVALUE_KIND_STACK

\* the labels a text branches or jumps to: the label that ends the operands
\* of a branch or of j
Targets(io) ==
    {io[i] : i \in {k \in DOMAIN io :
                        /\ io[k].t = "label"
                        /\ \E n \in 1..3 :
                               /\ k - n >= 1
                               /\ io[k - n].t = "ins"
                               /\ io[k - n].s \in BranchesOnSign \cup BranchesOnPair \cup {"j"}
                               /\ \A m \in 1..(n - 1) : io[k - m].t \in {"reg", "imm"}}}

\* the unit has been emitted to its end
UnitEmitted == gpc.at = "done" /\ ~enc.failed

\* C30: every label an emitted branch or jump names is declared in the
\* emitted unit.
C30_TargetsDeclared ==
    UnitEmitted => \A lbl \in Targets(enc.io) : Declared(enc.io, lbl) # {}

\* what of C30 holds: the labels of the loops and the end labels
C30_LoopTargetsDeclared ==
    UnitEmitted =>
        \A lbl \in Targets(enc.io) :
            (lbl.s \in {"L_BEGIN_CYCLE", "L_NEXT", "L_END"}
                 /\ lbl.n \in 1..(enc.label_num - 1))
                => Declared(enc.io, lbl) # {}

====
